---- MODULE Spec2Model ----
(***************************************************************************)
(* A model of coral-redis: the RESP/inline codec (src/protocol), the       *)
(* per-connection handler (src/server/handler.rs) and the in-memory        *)
(* storage backend (src/storage/memory.rs).                                *)
(*                                                                         *)
(* Bytes are one-character strings, byte strings are sequences of them.    *)
(* Option<T> is a sequence of length 0 (None) or 1 (Some).                 *)
(* A RespValue is a record [t |-> variant, v |-> payload].                 *)
(***************************************************************************)
EXTENDS Integers, Sequences, FiniteSets, TLC

VARIABLES
    \* ---- codec (RespParser) driven by a test client -------------------
    input,      \* bytes the client has still to feed (add_data)
    buffer,     \* RespParser.buffer
    frames,     \* the frames parse() has returned so far, in order
    presult,    \* outcome of the latest parse(): "none" | "ok" | "err" | "fresh"
    entry,      \* buffer content at the entry of the latest parse()
    sent,       \* the frames whose encodings make up the client's bytes
    \* ---- one connection task (Handler::handle_stream) ------------------
    hpc,        \* position of the connection task
    wire,       \* bytes in the socket, not yet read by the task
    sendsLeft,  \* messages the client may still send
    hbuf,       \* the task's RespParser.buffer
    value,      \* the frame being dispatched
    response,   \* the response being written
    written,    \* frames written to the socket with write_all, in order
    flushed,    \* number of written frames that have been flushed
    log,        \* the frames dispatched and the faults reported, in order
    pentry,     \* hbuf at the entry of the task's latest parse()
    reads,      \* the chunks the task has read from the socket, in order
    protocol_version,
    observed,   \* what the task's latest step reported to the Metrics instruments
    \* ---- storage backend (MemoryStorage) ------------------------------
    data,               \* the concurrent map: key -> StorageValue or NoRecord
    approximate_count,  \* the AtomicUsize, as its two's-complement value
    now,                \* the wall clock (SystemTime::now)
    pc,                 \* per connection: position inside a storage call
    call,               \* per connection: the latest storage call and its locals
    ret,                \* per connection: what the latest call returned
    hist,               \* per connection: the names of the calls it has made
    sweep_pc,           \* position of the background cleanup task
    to_remove,          \* cleanup_expired's to_remove
    last_write          \* per key: the latest mutation of its map entry

codecVars == <<input, buffer, frames, presult, entry, sent>>
connVars == <<hpc, wire, sendsLeft, hbuf, value, response, written, flushed,
              log, pentry, reads, protocol_version, observed>>
storeVars == <<data, approximate_count, now>>
taskVars == <<pc, call, ret, hist, sweep_pc, to_remove, last_write>>
vars == <<codecVars, connVars, storeVars, taskVars>>

(***************************************************************************)
(* Bytes                                                                   *)
(***************************************************************************)
CR == "\r"
LF == "\n"
CRLF == <<CR, LF>>

None == <<>>
Some(x) == <<x>>

Digits == <<"0", "1", "2", "3", "4", "5", "6", "7", "8", "9">>

IsDigit(c) == \E i \in 1..10 : Digits[i] = c

DigitVal(c) == (CHOOSE i \in 1..10 : Digits[i] = c) - 1

\* The value of a non-empty run of decimal digits.
RECURSIVE DigitsVal(_)
DigitsVal(s) ==
    IF Len(s) = 0 THEN 0
    ELSE DigitsVal(SubSeq(s, 1, Len(s) - 1)) * 10 + DigitVal(s[Len(s)])

AllDigits(s) == Len(s) > 0 /\ \A i \in 1..Len(s) : IsDigit(s[i])

\* str::parse::<i64>: an optional sign, then one or more digits.  None on
\* anything else.  (Overflow needs 19 digits, beyond the lines modelled.)
ParseI64(s) ==
    IF Len(s) = 0 THEN None
    ELSE IF s[1] = "-" THEN
        (IF AllDigits(Tail(s)) THEN Some(0 - DigitsVal(Tail(s))) ELSE None)
    ELSE IF s[1] = "+" THEN
        (IF AllDigits(Tail(s)) THEN Some(DigitsVal(Tail(s))) ELSE None)
    ELSE IF AllDigits(s) THEN Some(DigitsVal(s))
    ELSE None

\* format!("{}", n) of a natural number.
RECURSIVE NatToBytes(_)
NatToBytes(n) ==
    IF n < 10 THEN <<Digits[n + 1]>>
    ELSE NatToBytes(n \div 10) \o <<Digits[(n % 10) + 1]>>

\* format!("{}", i) of an integer.
IntToBytes(i) == IF i < 0 THEN <<"-">> \o NatToBytes(0 - i) ELSE NatToBytes(i)

(***************************************************************************)
(* RespValue                                                               *)
(***************************************************************************)
SimpleString(s) == [t |-> "SimpleString", v |-> s]
Error(s) == [t |-> "Error", v |-> s]
Integer(i) == [t |-> "Integer", v |-> i]
BulkString(o) == [t |-> "BulkString", v |-> o]     \* o: Option<bytes>
Array(o) == [t |-> "Array", v |-> o]               \* o: Option<Seq<RespValue>>
Null == [t |-> "Null", v |-> None]
Boolean(b) == [t |-> "Boolean", v |-> b]
Double(d) == [t |-> "Double", v |-> d]
Set(items) == [t |-> "Set", v |-> items]
Map(pairs) == [t |-> "Map", v |-> pairs]           \* Seq of <<key, value>>

\* RespValue::to_bytes
RECURSIVE to_bytes(_)
RECURSIVE ConcatBytes(_)
ConcatBytes(items) ==
    IF Len(items) = 0 THEN <<>>
    ELSE to_bytes(Head(items)) \o ConcatBytes(Tail(items))

RECURSIVE ConcatPairs(_)
ConcatPairs(pairs) ==
    IF Len(pairs) = 0 THEN <<>>
    ELSE to_bytes(Head(pairs)[1]) \o to_bytes(Head(pairs)[2])
             \o ConcatPairs(Tail(pairs))

to_bytes(f) ==
    CASE f.t = "SimpleString" -> <<"+">> \o f.v \o CRLF
      [] f.t = "Error" -> <<"-">> \o f.v \o CRLF
      [] f.t = "Integer" -> <<":">> \o IntToBytes(f.v) \o CRLF
      [] f.t = "BulkString" ->
            IF f.v = None THEN <<"$", "-", "1">> \o CRLF
            ELSE <<"$">> \o NatToBytes(Len(f.v[1])) \o CRLF \o f.v[1] \o CRLF
      [] f.t = "Array" ->
            IF f.v = None THEN <<"*", "-", "1">> \o CRLF
            ELSE <<"*">> \o NatToBytes(Len(f.v[1])) \o CRLF \o ConcatBytes(f.v[1])
      [] f.t = "Null" -> <<"_">> \o CRLF
      [] f.t = "Boolean" -> (IF f.v THEN <<"#", "t">> ELSE <<"#", "f">>) \o CRLF
      [] f.t = "Double" -> <<",">> \o IntToBytes(f.v) \o CRLF
      [] f.t = "Set" -> <<"~">> \o NatToBytes(Len(f.v)) \o CRLF \o ConcatBytes(f.v)
      [] f.t = "Map" -> <<"%">> \o NatToBytes(Len(f.v)) \o CRLF \o ConcatPairs(f.v)

(***************************************************************************)
(* BytesMut                                                                *)
(***************************************************************************)
\* buffer.advance(n) / the tail left by buffer.split_to(n)
Advance(buf, n) == SubSeq(buf, n + 1, Len(buf))

\* the head returned by buffer.split_to(n)
SplitHead(buf, n) == SubSeq(buf, 1, n)

\* buffer.truncate(n): keeps the first n bytes; no effect when n >= len.
Truncate(buf, n) == IF n < Len(buf) THEN SubSeq(buf, 1, n) ELSE buf

\* buffer.windows(2).position(|w| w == b"\r\n"): Some(0-based index) or None.
CrlfPosition(buf) ==
    LET hits == {i \in 1..(Len(buf) - 1) : buf[i] = CR /\ buf[i + 1] = LF}
    IN  IF hits = {} THEN None
        ELSE Some((CHOOSE i \in hits : \A j \in hits : i <= j) - 1)

(***************************************************************************)
(* Parse results: [r |-> "ok" | "none" | "err", val, rest] where rest is   *)
(* the buffer the call leaves behind.                                      *)
(***************************************************************************)
NoValue == [t |-> "NoValue", v |-> None]
POk(val, rest) == [r |-> "ok", val |-> val, rest |-> rest]
PNone(rest) == [r |-> "none", val |-> NoValue, rest |-> rest]
\* Err(io::Error::new(InvalidData, msg)); val holds the message.
PErr(msg, rest) == [r |-> "err", val |-> msg, rest |-> rest]

\* RespParser::read_line.  On success val holds the line (a byte string).
read_line(buf) ==
    LET pos == CrlfPosition(buf)
    IN  IF pos = None THEN PNone(buf)
        ELSE POk(SplitHead(buf, pos[1]), Advance(buf, pos[1] + 2))

RespTypeBytes == {"+", "-", ":", "$", "*", "_", "#", ",", "~", "%"}

\* a detect_format that knows the RESP2 type bytes only
detect_formatResp2(buf) ==
    IF Len(buf) = 0 THEN None
    ELSE IF buf[1] \in {"+", "-", ":", "$", "*"} THEN Some("Resp")
    ELSE Some("Inline")

\* detect_format: None on an empty buffer.
detect_format(buf) ==
    IF Len(buf) = 0 THEN None
    ELSE IF buf[1] \in RespTypeBytes THEN Some("Resp")
    ELSE Some("Inline")

parse_simple_string(buf) ==
    LET l == read_line(buf)
    IN  IF l.r = "ok" THEN POk(SimpleString(l.val), l.rest) ELSE PNone(l.rest)

parse_error(buf) ==
    LET l == read_line(buf)
    IN  IF l.r = "ok" THEN POk(Error(l.val), l.rest) ELSE PNone(l.rest)

parse_integer(buf) ==
    LET l == read_line(buf)
    IN  IF l.r = "ok" THEN
            (IF ParseI64(l.val) = None THEN PErr(<<"I", "n", "v", "a", "l", "i", "d", " ", "i", "n", "t", "e", "g", "e", "r">>, l.rest)
             ELSE POk(Integer(ParseI64(l.val)[1]), l.rest))
        ELSE PNone(l.rest)

\* The lines modelled hold no '.', exponent, "inf" or "nan": on them
\* str::parse::<f64> accepts exactly what parse::<i64> accepts.
parse_double(buf) ==
    LET l == read_line(buf)
    IN  IF l.r = "ok" THEN
            (IF ParseI64(l.val) = None THEN PErr(<<"I", "n", "v", "a", "l", "i", "d", " ", "d", "o", "u", "b", "l", "e">>, l.rest)
             ELSE POk(Double(ParseI64(l.val)[1]), l.rest))
        ELSE PNone(l.rest)

\* a parse_bulk_string that takes the length -1 for an empty payload
parse_bulk_stringNullAsEmpty(buf) ==
    LET l == read_line(buf)
        length == ParseI64(l.val)
    IN  IF l.r # "ok" THEN PNone(l.rest)
        ELSE IF length = None \/ length[1] < -1 THEN PErr(<<"e">>, l.rest)
        ELSE IF length[1] = -1 THEN POk(BulkString(Some(<<>>)), l.rest)
        ELSE IF Len(l.rest) < length[1] + 2 THEN PNone(l.rest)
        ELSE POk(BulkString(Some(SplitHead(l.rest, length[1]))),
                 Advance(l.rest, length[1] + 2))

parse_bulk_string(buf) ==
    LET l == read_line(buf)
    IN  IF l.r = "ok" THEN
            LET length == ParseI64(l.val)
            IN  IF length = None THEN PErr(<<"I", "n", "v", "a", "l", "i", "d", " ", "b", "u", "l", "k", " ", "s", "t", "r", "i", "n", "g", " ", "l", "e", "n", "g", "t", "h">>, l.rest)
                ELSE IF length[1] = -1 THEN POk(BulkString(None), l.rest)
                ELSE IF length[1] < 0 THEN PErr(<<"I", "n", "v", "a", "l", "i", "d", " ", "b", "u", "l", "k", " ", "s", "t", "r", "i", "n", "g", " ", "l", "e", "n", "g", "t", "h">>, l.rest)
                ELSE IF Len(l.rest) < length[1] + 2 THEN PNone(l.rest)
                ELSE LET string == SplitHead(l.rest, length[1])
                         after == Advance(l.rest, length[1])
                     IN  IF Len(after) >= 2 /\ SubSeq(after, 1, 2) = CRLF
                         THEN POk(BulkString(Some(string)), Advance(after, 2))
                         ELSE POk(BulkString(Some(string)), after)
        ELSE PNone(l.rest)

parse_null(buf) ==
    IF Len(buf) >= 2 /\ SubSeq(buf, 1, 2) = CRLF
    THEN POk(Null, Advance(buf, 2))
    ELSE PNone(buf)

parse_boolean(buf) ==
    IF Len(buf) >= 3 THEN
        (IF buf[1] \notin {"t", "f"} THEN PErr(<<"I", "n", "v", "a", "l", "i", "d", " ", "b", "o", "o", "l", "e", "a", "n", " ", "v", "a", "l", "u", "e", ":", " ">> \o <<buf[1]>>, buf)
         ELSE IF SubSeq(buf, 2, 3) = CRLF
              THEN POk(Boolean(buf[1] = "t"), Advance(buf, 3))
              ELSE PNone(buf))
    ELSE PNone(buf)

RECURSIVE parse_value(_)
\* The element loop of parse_array / parse_set (and, with 2n elements, of
\* parse_map): n more calls of parse_value, stopping at the first that
\* does not return a value.
RECURSIVE ParseElements(_, _, _)
ParseElements(buf, n, acc) ==
    IF n = 0 THEN POk(acc, buf)
    ELSE LET e == parse_value(buf)
         IN  IF e.r = "ok" THEN ParseElements(e.rest, n - 1, Append(acc, e.val))
             ELSE IF e.r = "none" THEN PNone(e.rest)
             ELSE e

parse_array(buf) ==
    LET l == read_line(buf)
    IN  IF l.r = "ok" THEN
            LET length == ParseI64(l.val)
            IN  IF length = None THEN PErr(<<"I", "n", "v", "a", "l", "i", "d", " ", "a", "r", "r", "a", "y", " ", "l", "e", "n", "g", "t", "h">>, l.rest)
                ELSE IF length[1] = -1 THEN POk(Array(None), l.rest)
                ELSE IF length[1] < 0 THEN PErr(<<"I", "n", "v", "a", "l", "i", "d", " ", "a", "r", "r", "a", "y", " ", "l", "e", "n", "g", "t", "h">>, l.rest)
                ELSE LET es == ParseElements(l.rest, length[1], <<>>)
                     IN  IF es.r = "ok" THEN POk(Array(Some(es.val)), es.rest)
                         ELSE es
        ELSE PNone(l.rest)

\* a parse_set that takes a negative length for the empty set
parse_setLenient(buf) ==
    LET l == read_line(buf)
        length == ParseI64(l.val)
    IN  IF l.r # "ok" THEN PNone(l.rest)
        ELSE IF length = None THEN PErr(<<"e">>, l.rest)
        ELSE IF length[1] < 0 THEN POk(Set(<<>>), l.rest)
        ELSE LET es == ParseElements(l.rest, length[1], <<>>)
             IN  IF es.r = "ok" THEN POk(Set(es.val), es.rest) ELSE es

parse_set(buf) ==
    LET l == read_line(buf)
    IN  IF l.r = "ok" THEN
            LET length == ParseI64(l.val)
            IN  IF length = None THEN PErr(<<"I", "n", "v", "a", "l", "i", "d", " ", "s", "e", "t", " ", "l", "e", "n", "g", "t", "h">>, l.rest)
                ELSE IF length[1] < 0 THEN PErr(<<"I", "n", "v", "a", "l", "i", "d", " ", "s", "e", "t", " ", "l", "e", "n", "g", "t", "h">>, l.rest)
                ELSE LET es == ParseElements(l.rest, length[1], <<>>)
                     IN  IF es.r = "ok" THEN POk(Set(es.val), es.rest)
                         ELSE es
        ELSE PNone(l.rest)

\* pairs.push((key, value)) over the flat element list
Pairs(es) == [i \in 1..(Len(es) \div 2) |-> <<es[2 * i - 1], es[2 * i]>>]

parse_map(buf) ==
    LET l == read_line(buf)
    IN  IF l.r = "ok" THEN
            LET length == ParseI64(l.val)
            IN  IF length = None THEN PErr(<<"I", "n", "v", "a", "l", "i", "d", " ", "m", "a", "p", " ", "l", "e", "n", "g", "t", "h">>, l.rest)
                ELSE IF length[1] < 0 THEN PErr(<<"I", "n", "v", "a", "l", "i", "d", " ", "m", "a", "p", " ", "l", "e", "n", "g", "t", "h">>, l.rest)
                ELSE LET es == ParseElements(l.rest, 2 * length[1], <<>>)
                     IN  IF es.r = "ok" THEN POk(Map(Pairs(es.val)), es.rest)
                         ELSE es
        ELSE PNone(l.rest)

\* RespParser::parse_value: consumes the type byte, then the variant.
parse_value(buf) ==
    IF Len(buf) = 0 THEN PNone(buf)
    ELSE LET type_byte == buf[1]
             b == Advance(buf, 1)
         IN  CASE type_byte = "+" -> parse_simple_string(b)
               [] type_byte = "-" -> parse_error(b)
               [] type_byte = ":" -> parse_integer(b)
               [] type_byte = "$" -> parse_bulk_string(b)
               [] type_byte = "*" -> parse_array(b)
               [] type_byte = "_" -> parse_null(b)
               [] type_byte = "#" -> parse_boolean(b)
               [] type_byte = "," -> parse_double(b)
               [] type_byte = "~" -> parse_set(b)
               [] type_byte = "%" -> parse_map(b)
               [] OTHER -> PErr(<<"I", "n", "v", "a", "l", "i", "d", " ", "R", "E", "S", "P", " ", "t", "y", "p", "e", " ", "b", "y", "t", "e", ":", " ">>
                               \o <<type_byte>>, b)

(***************************************************************************)
(* InlineParser                                                            *)
(***************************************************************************)
\* InlineParser::parse_command_line, one character per call.  State:
\* parts, current, in_quotes.  Result: [ok, parts].
RECURSIVE CommandLine(_, _, _, _, _)
CommandLine(line, i, parts, current, in_quotes) ==
    IF i > Len(line) THEN
        [ok |-> ~in_quotes,
         parts |-> IF Len(current) > 0 THEN Append(parts, current) ELSE parts]
    ELSE LET ch == line[i]
         IN  IF ch = "\"" THEN
                 CommandLine(line, i + 1, parts, current, ~in_quotes)
             ELSE IF ch \in {" ", "\t"} /\ ~in_quotes THEN
                 CommandLine(line, i + 1,
                             IF Len(current) > 0 THEN Append(parts, current)
                             ELSE parts,
                             <<>>, in_quotes)
             ELSE IF ch = "\\" /\ in_quotes THEN
                 (IF i + 1 > Len(line) THEN
                      CommandLine(line, i + 1, parts, current, in_quotes)
                  ELSE LET next_ch == line[i + 1]
                           pushed ==
                               CASE next_ch = "n" -> <<"\n">>
                                 [] next_ch = "r" -> <<"\r">>
                                 [] next_ch = "t" -> <<"\t">>
                                 [] next_ch = "\"" -> <<"\"">>
                                 [] next_ch = "\\" -> <<"\\">>
                                 [] OTHER -> <<"\\", next_ch>>
                       IN  CommandLine(line, i + 2, parts, current \o pushed,
                                       in_quotes))
             ELSE CommandLine(line, i + 1, parts, Append(current, ch), in_quotes)

\* a parse_command_line that accepts a quote left open
parse_command_lineUnclosedOk(line) ==
    [CommandLine(line, 1, <<>>, <<>>, FALSE) EXCEPT !.ok = TRUE]

parse_command_line(line) == CommandLine(line, 1, <<>>, <<>>, FALSE)

\* A bytes_consumed that reports nothing consumed.
bytes_consumedNothing(buf) == 0

\* InlineParser::bytes_consumed
bytes_consumed(buf) ==
    IF CrlfPosition(buf) = None THEN 0 ELSE CrlfPosition(buf)[1] + 2

\* an InlineParser::parse that yields the empty array for a blank line
InlineParseBlankAsEmpty(buf) ==
    LET end_pos == CrlfPosition(buf)
    IN  IF end_pos = None THEN PNone(buf)
        ELSE LET cl == parse_command_line(SplitHead(buf, end_pos[1]))
             IN  IF ~cl.ok THEN PErr(<<"e">>, buf)
                 ELSE POk(Array(Some([i \in 1..Len(cl.parts) |->
                                         BulkString(Some(cl.parts[i]))])),
                          buf)

\* InlineParser::parse: the buffer is borrowed, never changed.
InlineParse(buf) ==
    LET end_pos == CrlfPosition(buf)
    IN  IF end_pos = None THEN PNone(buf)
        ELSE LET cl == parse_command_line(SplitHead(buf, end_pos[1]))
             IN  IF ~cl.ok THEN PErr(<<"U", "n", "c", "l", "o", "s", "e", "d", " ", "q", "u", "o", "t", "e", " ", "i", "n", " ", "i", "n", "l", "i", "n", "e", " ", "c", "o", "m", "m", "a", "n", "d">>, buf)
                 ELSE IF Len(cl.parts) = 0 THEN PNone(buf)
                 ELSE POk(Array(Some([i \in 1..Len(cl.parts) |->
                                         BulkString(Some(cl.parts[i]))])),
                          buf)

(***************************************************************************)
(* RespParser                                                              *)
(***************************************************************************)
\* RespParser::parse.  rest is self.buffer when the call returns.
parse(buf) ==
    IF Len(buf) = 0 THEN PNone(buf)
    ELSE IF detect_format(buf) = Some("Inline") THEN
        LET p == InlineParse(buf)
        IN  IF p.r = "ok" THEN POk(p.val, Advance(buf, bytes_consumed(buf)))
            ELSE p
    ELSE
        LET original_len == Len(buf)
            p == parse_value(buf)
        IN  IF p.r = "none" THEN PNone(Truncate(p.rest, original_len))
            ELSE p

\* RespParser::add_data
add_data(buf, bytes) == buf \o bytes

\* A reset that keeps the buffer.
resetNothing(buf) == buf

\* RespParser::reset
reset(buf) == <<>>

(***************************************************************************)
(* The codec under a test client: the client holds the bytes of two        *)
(* encoded frames (or a raw script), feeds them in chunks of any size      *)
(* with add_data, and after each chunk calls parse() until it returns      *)
(* incomplete; after an error it calls reset().                            *)
(***************************************************************************)
OK == <<"O", "K">>

TestFrames ==
    { SimpleString(OK),
      Integer(42),
      BulkString(Some(<<"h", "i">>)),
      BulkString(Some(<<>>)),
      Array(Some(<<BulkString(Some(<<"G", "E", "T">>)), BulkString(Some(<<"k">>))>>)),
      Boolean(TRUE),
      Null,
      Set(<<Integer(-1), SimpleString(OK)>>),
      Map(<< <<SimpleString(<<"k">>), Array(Some(<<Integer(7)>>))>> >>) }

\* Raw client scripts: inline commands, blank lines, malformed frames.
RawScripts ==
    { <<"P", "I", "N", "G", CR, LF>>,
      <<"G", "E", "T", " ", "\"", "a", " ", "b", "\"", CR, LF, "+", "O", "K", CR, LF>>,
      <<" ", CR, LF, "P", "I", "N", "G", CR, LF>>,
      <<"$", "-", "5", CR, LF, "+", "O", "K", CR, LF>>,
      <<"G", "E", "T", " ", "\"", "a", CR, LF>>,
      <<"$", "1", CR, LF, "a", "b", "c", CR, LF>> }

CodecFeedInit ==
    /\ \/ \E f1 \in TestFrames, f2 \in TestFrames :
              /\ sent = <<f1, f2>>
              /\ input = to_bytes(f1) \o to_bytes(f2)
       \/ \E script \in RawScripts :
              /\ sent = <<>>
              /\ input = script
    /\ buffer = <<>>
    /\ frames = <<>>
    /\ presult = "fresh"
    /\ entry = <<>>

\* parser.add_data(chunk) with the next n bytes of the client's input
Feed(n) ==
    /\ presult \in {"fresh", "none", "reset"}
    /\ n \in 1..Len(input)
    /\ buffer' = add_data(buffer, SubSeq(input, 1, n))
    /\ input' = Advance(input, n)
    /\ presult' = "fed"
    /\ UNCHANGED <<frames, entry, sent, connVars, storeVars, taskVars>>

\* one call of parser.parse()
ParseCall ==
    /\ presult \in {"fed", "ok"}
    /\ LET p == parse(buffer)
       IN  /\ entry' = buffer
           /\ buffer' = p.rest
           /\ presult' = p.r
           /\ frames' = IF p.r = "ok" THEN Append(frames, p.val) ELSE frames
    /\ UNCHANGED <<input, sent, connVars, storeVars, taskVars>>

\* parser.reset() after an error
ResetCall ==
    /\ presult = "err"
    /\ buffer' = reset(buffer)
    /\ presult' = "reset"
    /\ UNCHANGED <<input, frames, entry, sent, connVars, storeVars, taskVars>>


(***************************************************************************)
(* StorageValue (src/storage/traits.rs).  Time is a natural number.        *)
(***************************************************************************)
\* StorageValue::new
StorageValue_new(v) == [data |-> v, expires_at |-> None]

\* StorageValue::new_with_expiry, SystemTime::now() being t
StorageValue_new_with_expiry(v, ttl, t) == [data |-> v, expires_at |-> Some(t + ttl)]

\* a record that never expires
is_expiredNever(rec, t) == FALSE

\* StorageValue::is_expired, SystemTime::now() being t
is_expired(rec, t) == rec.expires_at # None /\ t > rec.expires_at[1]

(***************************************************************************)
(* The concurrent map (papaya::HashMap): a function from the keys present. *)
(* Each operation below is one linearizable map operation.                 *)
(***************************************************************************)
EmptyMap == [k \in {} |-> StorageValue_new(<<>>)]

\* guard.get(key)
MapGet(m, k) == IF k \in DOMAIN m THEN Some(m[k]) ELSE None

\* An insert that leaves an existing entry as it is.
MapInsertIfAbsent(m, k, rec) ==
    [x \in (DOMAIN m) \cup {k} |-> IF x = k /\ k \notin DOMAIN m THEN rec ELSE m[x]]

\* An insert that updates the payload of an existing entry in place and
\* keeps the deadline the entry had.
MapInsertKeepExpiry(m, k, rec) ==
    [x \in (DOMAIN m) \cup {k} |->
        IF x # k THEN m[x]
        ELSE IF k \in DOMAIN m /\ m[k].expires_at # None
             THEN [rec EXCEPT !.expires_at = m[k].expires_at]
             ELSE rec]

\* guard.insert(key, rec)
MapInsert(m, k, rec) == [x \in (DOMAIN m) \cup {k} |-> IF x = k THEN rec ELSE m[x]]

\* A remove that leaves the entry in the map.
MapRemoveNothing(m, k) == m

\* guard.remove(key)
MapRemove(m, k) == [x \in (DOMAIN m) \ {k} |-> m[x]]

\* a clear that removes nothing
MapClearNothing(m) == m

\* guard.clear()
MapClear(m) == EmptyMap

\* approximate_count.fetch_add(1) / fetch_sub(1) on an AtomicUsize.  The
\* counter is held as the two's-complement (i64) reading of its 64 bits,
\* which is also what DBSIZE reports (count as i64): 0 - 1 wraps to
\* usize::MAX, read back as -1.
FetchAdd(c) == c + 1
FetchSub(c) == c - 1

\* the keys cleanup_expired's scan collects
ExpiredKeys(m, t) == {k \in DOMAIN m : is_expired(m[k], t)}


(***************************************************************************)
(* MemoryStorage under concurrent connections.  Every connection task      *)
(* runs one storage call at a time; a call is a sequence of atomic steps   *)
(* (one map operation or one counter operation each), and the steps of     *)
(* different tasks interleave freely.  The background cleanup task and     *)
(* the clock run alongside.                                                *)
(***************************************************************************)
Conns == {"c1", "c2"}
StoreKeys == {<<"k">>}
StoreValues == {<<"v">>, <<"w">>}
Ttls == {1}
MaxTime == 2
MaxCalls == 3

NoCall ==
    [op |-> "none", key |-> <<>>, value |-> <<>>, ttl |-> None,
     is_new |-> FALSE,     \* set: guard.get(key).is_none()
     expired |-> FALSE,    \* get/exists: the entry found was expired
     existed |-> FALSE,    \* the call's remove(key) returned Some
     rec |-> None,         \* set: the StorageValue inserted
     seen |-> [kind |-> "none", value |-> <<>>, expiry |-> None, by |-> "",
               old |-> None]]

\* A mutation of a map entry: its kind, the value and the deadline written,
\* the task, and the record it replaced.
Mutation(kind, v, expiry, by, old) ==
    [kind |-> kind, value |-> v, expiry |-> expiry, by |-> by, old |-> old]

NoMutation == Mutation("none", <<>>, None, "", None)

RetPending == <<"pending">>
RetUnit == <<"ok">>
RetOption(o) == <<"option", o>>
RetBool(b) == <<"bool", b>>
RetUsize(n) == <<"usize", n>>

TasksInit ==
    /\ pc = [p \in Conns |-> "idle"]
    /\ call = [p \in Conns |-> NoCall]
    /\ ret = [p \in Conns |-> RetPending]
    /\ hist = [p \in Conns |-> <<>>]
    /\ sweep_pc = "idle"
    /\ to_remove = {}
    /\ last_write = [k \in StoreKeys |-> NoMutation]

\* MemoryStorage::new_with_cleanup_interval
BackendInit ==
    /\ data = EmptyMap
    /\ approximate_count = 0
    /\ now = 0

\* the number of storage calls made so far, over all connections
RECURSIVE CallsMade(_)
CallsMade(ps) ==
    IF ps = {} THEN 0
    ELSE LET p == CHOOSE q \in ps : TRUE
         IN  Len(hist[p]) + CallsMade(ps \ {p})

CanCall(p) == pc[p] = "idle" /\ CallsMade(Conns) < MaxCalls

Begin(p, c, next_pc) ==
    /\ call' = [call EXCEPT ![p] = c]
    /\ hist' = [hist EXCEPT ![p] = Append(@, c.op)]
    /\ pc' = [pc EXCEPT ![p] = next_pc]
    /\ ret' = [ret EXCEPT ![p] = RetPending]

Finish(p, c, r) ==
    /\ call' = [call EXCEPT ![p] = c]
    /\ pc' = [pc EXCEPT ![p] = "idle"]
    /\ ret' = [ret EXCEPT ![p] = r]

\* set, up to guard.get(key).is_none()
SetCall(p, k, v) ==
    /\ CanCall(p)
    /\ Begin(p, [NoCall EXCEPT !.op = "set", !.key = k, !.value = v,
                               !.is_new = (MapGet(data, k) = None)], "insert")
    /\ UNCHANGED <<data, approximate_count, now, sweep_pc, to_remove, last_write,
                   codecVars, connVars>>

\* set_with_expiry, up to guard.get(key).is_none()
SetWithExpiryCall(p, k, v, ttl) ==
    /\ CanCall(p)
    /\ Begin(p, [NoCall EXCEPT !.op = "set_with_expiry", !.key = k, !.value = v,
                               !.ttl = Some(ttl),
                               !.is_new = (MapGet(data, k) = None)], "insert")
    /\ UNCHANGED <<data, approximate_count, now, sweep_pc, to_remove, last_write,
                   codecVars, connVars>>

\* the StorageValue a set / set_with_expiry call builds at time t
NewRecord(c, t) ==
    IF c.ttl = None THEN StorageValue_new(c.value)
    ELSE StorageValue_new_with_expiry(c.value, c.ttl[1], t)

\* set / set_with_expiry: guard.insert(key, StorageValue)
SetInsert(p) ==
    /\ pc[p] = "insert"
    /\ LET c == call[p]
           rec == NewRecord(c, now)
           c2 == [c EXCEPT !.rec = Some(rec)]
       IN  /\ data' = MapInsert(data, c.key, rec)
           /\ last_write' = [last_write EXCEPT ![c.key] =
                                Mutation(c.op, c.value,
                                         IF c.ttl = None THEN None
                                         ELSE Some(now + c.ttl[1]),
                                         p, MapGet(data, c.key))]
           /\ IF c.is_new
              THEN /\ call' = [call EXCEPT ![p] = c2]
                   /\ pc' = [pc EXCEPT ![p] = "add"]
                   /\ UNCHANGED ret
              ELSE Finish(p, c2, RetUnit)
    /\ UNCHANGED <<approximate_count, now, hist, sweep_pc, to_remove,
                   codecVars, connVars>>

\* set / set_with_expiry: if is_new { approximate_count.fetch_add(1) }
SetCount(p) ==
    /\ pc[p] = "add"
    /\ approximate_count' = FetchAdd(approximate_count)
    /\ Finish(p, call[p], RetUnit)
    /\ UNCHANGED <<data, now, hist, sweep_pc, to_remove, last_write,
                   codecVars, connVars>>

\* what get / exists returns for "no live record"
Absent(op) == IF op = "get" THEN RetOption(None) ELSE RetBool(FALSE)

\* what get / exists returns for a live record
Present(op, rec) == IF op = "get" THEN RetOption(Some(rec.data)) ELSE RetBool(TRUE)

\* get / exists, up to the branch on guard.get(key) and entry.is_expired()
Lookup(p, op, k) ==
    /\ CanCall(p)
    /\ LET e == MapGet(data, k)
           c == [NoCall EXCEPT !.op = op, !.key = k, !.seen = last_write[k],
                               !.expired = (e # None /\ is_expired(e[1], now))]
       IN  /\ hist' = [hist EXCEPT ![p] = Append(@, op)]
           /\ IF e = None THEN Finish(p, c, Absent(op))
              ELSE IF c.expired
              THEN /\ call' = [call EXCEPT ![p] = c]
                   /\ pc' = [pc EXCEPT ![p] = "remove"]
                   /\ ret' = [ret EXCEPT ![p] = RetPending]
              ELSE Finish(p, c, Present(op, e[1]))
    /\ UNCHANGED <<data, approximate_count, now, sweep_pc, to_remove, last_write,
                   codecVars, connVars>>

GetCall(p, k) == Lookup(p, "get", k)

ExistsCall(p, k) == Lookup(p, "exists", k)

\* get / exists on an expired entry: remove_guard.remove(key)
EvictRemove(p) ==
    /\ pc[p] = "remove"
    /\ LET c == call[p]
           existed == MapGet(data, c.key) # None
           c2 == [c EXCEPT !.existed = existed]
       IN  /\ data' = MapRemove(data, c.key)
           /\ last_write' = IF existed
                            THEN [last_write EXCEPT ![c.key] =
                                     Mutation("evict", <<>>, None, p, MapGet(data, c.key))]
                            ELSE last_write
           /\ IF existed
              THEN /\ call' = [call EXCEPT ![p] = c2]
                   /\ pc' = [pc EXCEPT ![p] = "sub"]
                   /\ UNCHANGED ret
              ELSE Finish(p, c2, Absent(c.op))
    /\ UNCHANGED <<approximate_count, now, hist, sweep_pc, to_remove,
                   codecVars, connVars>>

\* get / exists on an expired entry: approximate_count.fetch_sub(1)
EvictCount(p) ==
    /\ pc[p] = "sub"
    /\ call[p].op \in {"get", "exists"}
    /\ approximate_count' = FetchSub(approximate_count)
    /\ Finish(p, call[p], Absent(call[p].op))
    /\ UNCHANGED <<data, now, hist, sweep_pc, to_remove, last_write,
                   codecVars, connVars>>

\* delete, up to guard.remove(key).is_some()
DeleteCall(p, k) ==
    /\ CanCall(p)
    /\ LET existed == MapGet(data, k) # None
           c == [NoCall EXCEPT !.op = "delete", !.key = k, !.existed = existed]
       IN  /\ data' = MapRemove(data, k)
           /\ last_write' = [last_write EXCEPT ![k] =
                                Mutation("delete", <<>>, None, p, MapGet(data, k))]
           /\ hist' = [hist EXCEPT ![p] = Append(@, "delete")]
           /\ IF existed
              THEN /\ call' = [call EXCEPT ![p] = c]
                   /\ pc' = [pc EXCEPT ![p] = "sub"]
                   /\ ret' = [ret EXCEPT ![p] = RetPending]
              ELSE Finish(p, c, RetBool(FALSE))
    /\ UNCHANGED <<approximate_count, now, sweep_pc, to_remove,
                   codecVars, connVars>>

\* delete: if existed { approximate_count.fetch_sub(1) }
DeleteCount(p) ==
    /\ pc[p] = "sub"
    /\ call[p].op = "delete"
    /\ approximate_count' = FetchSub(approximate_count)
    /\ Finish(p, call[p], RetBool(TRUE))
    /\ UNCHANGED <<data, now, hist, sweep_pc, to_remove, last_write,
                   codecVars, connVars>>

\* keys_count
KeysCountCall(p) ==
    /\ CanCall(p)
    /\ hist' = [hist EXCEPT ![p] = Append(@, "keys_count")]
    /\ Finish(p, [NoCall EXCEPT !.op = "keys_count"], RetUsize(approximate_count))
    /\ UNCHANGED <<data, approximate_count, now, sweep_pc, to_remove, last_write,
                   codecVars, connVars>>

\* flush: guard.clear()
FlushCall(p) ==
    /\ CanCall(p)
    /\ data' = MapClear(data)
    /\ last_write' = [k \in StoreKeys |-> Mutation("flush", <<>>, None, p, MapGet(data, k))]
    /\ Begin(p, [NoCall EXCEPT !.op = "flush"], "store")
    /\ UNCHANGED <<approximate_count, now, sweep_pc, to_remove,
                   codecVars, connVars>>

\* flush: approximate_count.store(0)
FlushStore(p) ==
    /\ pc[p] = "store"
    /\ approximate_count' = 0
    /\ Finish(p, call[p], RetUnit)
    /\ UNCHANGED <<data, now, hist, sweep_pc, to_remove, last_write,
                   codecVars, connVars>>

\* cleanup_expired: the scan that fills to_remove (taken as one snapshot)
SweepScan ==
    /\ sweep_pc = "idle"
    /\ to_remove' = ExpiredKeys(data, now)
    /\ sweep_pc' = IF to_remove' = {} THEN "idle" ELSE "remove"
    /\ UNCHANGED <<data, approximate_count, now, pc, call, ret, hist, last_write,
                   codecVars, connVars>>

AfterSweepStep(left) == IF left = {} THEN "idle" ELSE "remove"

\* cleanup_expired: guard.remove(key) for the next key of to_remove
SweepRemove(k) ==
    /\ sweep_pc = "remove"
    /\ k \in to_remove
    /\ LET existed == MapGet(data, k) # None
       IN  /\ data' = MapRemove(data, k)
           /\ to_remove' = to_remove \ {k}
           /\ last_write' = IF existed
                            THEN [last_write EXCEPT ![k] =
                                     Mutation("sweep", <<>>, None, "sweep", MapGet(data, k))]
                            ELSE last_write
           /\ sweep_pc' = IF existed THEN "sub" ELSE AfterSweepStep(to_remove')
    /\ UNCHANGED <<approximate_count, now, pc, call, ret, hist,
                   codecVars, connVars>>

\* cleanup_expired: count.fetch_sub(1)
SweepCount ==
    /\ sweep_pc = "sub"
    /\ approximate_count' = FetchSub(approximate_count)
    /\ sweep_pc' = AfterSweepStep(to_remove)
    /\ UNCHANGED <<data, now, pc, call, ret, hist, to_remove, last_write,
                   codecVars, connVars>>

\* the wall clock advances
Tick ==
    /\ now < MaxTime
    /\ now' = now + 1
    /\ UNCHANGED <<data, approximate_count, pc, call, ret, hist, sweep_pc,
                   to_remove, last_write,
                   codecVars, connVars>>

(***************************************************************************)
(* MemoryStorage calls run to completion, as one connection on its own     *)
(* sees them.  Result: [data, count, ret].                                 *)
(***************************************************************************)
Done(d, c, r) == [data |-> d, count |-> c, ret |-> r]

\* MemoryStorage::set
storage_set(d, c, k, v) ==
    LET is_new == MapGet(d, k) = None
    IN  Done(MapInsert(d, k, StorageValue_new(v)),
             IF is_new THEN FetchAdd(c) ELSE c, RetUnit)

\* MemoryStorage::set_with_expiry
storage_set_with_expiry(d, c, t, k, v, ttl) ==
    LET is_new == MapGet(d, k) = None
    IN  Done(MapInsert(d, k, StorageValue_new_with_expiry(v, ttl, t)),
             IF is_new THEN FetchAdd(c) ELSE c, RetUnit)

\* MemoryStorage::get
storage_get(d, c, t, k) ==
    IF MapGet(d, k) = None THEN Done(d, c, RetOption(None))
    ELSE IF is_expired(d[k], t)
         THEN Done(MapRemove(d, k), FetchSub(c), RetOption(None))
         ELSE Done(d, c, RetOption(Some(d[k].data)))

\* a delete that reports a removal whether or not the key was stored
storage_deleteAlwaysTrue(d, c, k) == Done(MapRemove(d, k), c, RetBool(TRUE))

\* MemoryStorage::delete
storage_delete(d, c, k) ==
    IF MapGet(d, k) # None THEN Done(MapRemove(d, k), FetchSub(c), RetBool(TRUE))
    ELSE Done(d, c, RetBool(FALSE))

\* an exists that takes the record it finds out of the map
storage_existsTaking(d, c, t, k) ==
    IF MapGet(d, k) = None THEN Done(d, c, RetBool(FALSE))
    ELSE Done(MapRemove(d, k), FetchSub(c), RetBool(~is_expired(d[k], t)))

\* MemoryStorage::exists
storage_exists(d, c, t, k) ==
    IF MapGet(d, k) = None THEN Done(d, c, RetBool(FALSE))
    ELSE IF is_expired(d[k], t)
         THEN Done(MapRemove(d, k), FetchSub(c), RetBool(FALSE))
         ELSE Done(d, c, RetBool(TRUE))

\* MemoryStorage::keys_count
storage_keys_count(d, c) == Done(d, c, RetUsize(c))

\* MemoryStorage::flush
storage_flush(d, c) == Done(MapClear(d), 0, RetUnit)

(***************************************************************************)
(* Handler: command dispatch.  A handler call takes the command's          *)
(* arguments and the state it can touch, h = [data, count, pv], at clock   *)
(* reading t, and yields [response, data, count, pv].                      *)
(***************************************************************************)
UpperCase == <<"A", "B", "C", "D", "E", "F", "G", "H", "I", "J", "K", "L", "M",
               "N", "O", "P", "Q", "R", "S", "T", "U", "V", "W", "X", "Y", "Z">>

LowerCase == <<"a", "b", "c", "d", "e", "f", "g", "h", "i", "j", "k", "l", "m",
               "n", "o", "p", "q", "r", "s", "t", "u", "v", "w", "x", "y", "z">>

\* u8::is_ascii_uppercase
IsUpper(b) == \E i \in 1..26 : UpperCase[i] = b

\* u8::to_ascii_lowercase
ToLower(b) == IF IsUpper(b) THEN LowerCase[CHOOSE i \in 1..26 : UpperCase[i] = b] ELSE b

\* str::to_ascii_lowercase / str::to_lowercase on ASCII text
LowerStr(s) == [i \in 1..Len(s) |-> ToLower(s[i])]

\* str::eq_ignore_ascii_case
eq_ignore_ascii_case(s, lit) == LowerStr(s) = LowerStr(lit)

\* b | 0x20: sets bit 5.  Upper-case letters become lower-case; of the
\* other bytes 0x40..0x5F the table gives the image of [ \ ] ^; bytes that have the
\* bit already (digits, punctuation 0x20..0x3F, lower-case, 0x60..0x7F)
\* are unchanged; CR and LF become '-' and '*'.
Or20(b) ==
    IF IsUpper(b) THEN ToLower(b)
    ELSE CASE b = "[" -> "{"
           [] b = "\\" -> "|"
           [] b = "]" -> "}"
           [] b = "^" -> "~"
           [] b = CR -> "-"
           [] b = LF -> "*"
           [] OTHER -> b

\* bytes[0] | 0x20 == lit[0] && ... over the whole length of lit
MatchesOr20(cmd, lit) ==
    Len(cmd) = Len(lit) /\ \A i \in 1..Len(lit) : Or20(cmd[i]) = lit[i]

\* a normalize_command that folds no case
normalize_commandExact(cmd) == cmd

\* a normalize_command that takes every name for ping
normalize_commandAllPing(cmd) == <<"p", "i", "n", "g">>

\* Handler::normalize_command.  The first test of the 3-byte arm asks for
\* a fourth byte (bytes.get(3)) and so never succeeds.
normalize_command(cmd) ==
    IF \A i \in 1..Len(cmd) : ~IsUpper(cmd[i]) THEN cmd
    ELSE CASE Len(cmd) = 3 ->
                 (IF MatchesOr20(cmd, <<"s", "e", "t">>) THEN <<"s", "e", "t">>
                  ELSE IF MatchesOr20(cmd, <<"g", "e", "t">>) THEN <<"g", "e", "t">>
                  ELSE IF MatchesOr20(cmd, <<"d", "e", "l">>) THEN <<"d", "e", "l">>
                  ELSE cmd)
           [] Len(cmd) = 4 ->
                 (IF MatchesOr20(cmd, <<"p", "i", "n", "g">>) THEN <<"p", "i", "n", "g">> ELSE cmd)
           [] Len(cmd) = 5 ->
                 (IF MatchesOr20(cmd, <<"h", "e", "l", "l", "o">>) THEN <<"h", "e", "l", "l", "o">> ELSE cmd)
           [] Len(cmd) = 6 ->
                 (IF MatchesOr20(cmd, <<"e", "x", "i", "s", "t", "s">>) THEN <<"e", "x", "i", "s", "t", "s">>
                  ELSE IF MatchesOr20(cmd, <<"d", "b", "s", "i", "z", "e">>) THEN <<"d", "b", "s", "i", "z", "e">>
                  ELSE IF MatchesOr20(cmd, <<"c", "o", "n", "f", "i", "g">>) THEN <<"c", "o", "n", "f", "i", "g">>
                  ELSE cmd)
           [] Len(cmd) = 7 ->
                 (IF MatchesOr20(cmd, <<"c", "o", "m", "m", "a", "n", "d">>) THEN <<"c", "o", "m", "m", "a", "n", "d">>
                  ELSE IF MatchesOr20(cmd, <<"f", "l", "u", "s", "h", "d", "b">>) THEN <<"f", "l", "u", "s", "h", "d", "b">>
                  ELSE cmd)
           [] OTHER -> cmd

\* RespValue::BulkString(Some(_))
IsBulk(a) == a.t = "BulkString" /\ a.v # None

Reply(resp, h) == [response |-> resp, data |-> h.data, count |-> h.count, pv |-> h.pv]

ReplyStored(resp, st, h) ==
    [response |-> resp, data |-> st.data, count |-> st.count, pv |-> h.pv]

\* Handler::handle_ping
handle_ping(args, h) ==
    CASE Len(args) = 0 -> Reply(SimpleString(<<"P", "O", "N", "G">>), h)
      [] Len(args) = 1 ->
            IF IsBulk(args[1]) THEN Reply(BulkString(Some(args[1].v[1])), h)
            ELSE Reply(Error(<<"I", "n", "v", "a", "l", "i", "d", " ", "P", "I", "N", "G", " ", "a", "r", "g", "u", "m", "e", "n", "t">>), h)
      [] OTHER -> Reply(Error(<<"W", "r", "o", "n", "g", " ", "n", "u", "m", "b", "e", "r", " ", "o", "f", " ", "a", "r", "g", "u", "m", "e", "n", "t", "s", " ", "f", "o", "r", " ", "P", "I", "N", "G">>), h)

\* str::parse::<u64>: an optional '+', then one or more digits.  (Overflow
\* needs 20 digits, beyond the arguments modelled.)
ParseU64(s) ==
    IF Len(s) = 0 THEN None
    ELSE IF s[1] = "+" THEN
        (IF AllDigits(Tail(s)) THEN Some(DigitsVal(Tail(s))) ELSE None)
    ELSE IF AllDigits(s) THEN Some(DigitsVal(s))
    ELSE None

\* Handler::handle_set.  h.fault: the backend call the command makes
\* returns Err(StorageError) (MemoryStorage never does; the durable and the
\* remote backend do when a transaction or a request fails).
handle_set(args, h, t) ==
    IF Len(args) < 2 THEN Reply(Error(<<"W", "r", "o", "n", "g", " ", "n", "u", "m", "b", "e", "r", " ", "o", "f", " ", "a", "r", "g", "u", "m", "e", "n", "t", "s", " ", "f", "o", "r", " ", "S", "E", "T">>), h)
    ELSE IF ~IsBulk(args[1]) THEN Reply(Error(<<"I", "n", "v", "a", "l", "i", "d", " ", "k", "e", "y">>), h)
    ELSE IF ~IsBulk(args[2]) THEN Reply(Error(<<"I", "n", "v", "a", "l", "i", "d", " ", "v", "a", "l", "u", "e">>), h)
    ELSE LET key == args[1].v[1]
             val == args[2].v[1]
         IN  IF /\ Len(args) >= 4
                /\ IsBulk(args[3]) /\ IsBulk(args[4])
                /\ eq_ignore_ascii_case(args[3].v[1], <<"E", "X">>)
             THEN LET ttl_secs == ParseU64(args[4].v[1])
                  IN  IF ttl_secs # None
                      THEN IF h.fault THEN Reply(Error(<<"S", "E", "T", " ", "f", "a", "i", "l", "e", "d">>), h)
                           ELSE ReplyStored(SimpleString(<<"O", "K">>),
                                       storage_set_with_expiry(h.data, h.count, t,
                                                               key, val, ttl_secs[1]),
                                       h)
                      ELSE Reply(Error(<<"I", "n", "v", "a", "l", "i", "d", " ", "T", "T", "L">>), h)
             ELSE IF h.fault THEN Reply(Error(<<"S", "E", "T", " ", "f", "a", "i", "l", "e", "d">>), h)
             ELSE ReplyStored(SimpleString(<<"O", "K">>),
                              storage_set(h.data, h.count, key, val), h)

\* Handler::handle_get
handle_get(args, h, t) ==
    IF Len(args) # 1 THEN Reply(Error(<<"W", "r", "o", "n", "g", " ", "n", "u", "m", "b", "e", "r", " ", "o", "f", " ", "a", "r", "g", "u", "m", "e", "n", "t", "s", " ", "f", "o", "r", " ", "G", "E", "T">>), h)
    ELSE IF ~IsBulk(args[1]) THEN Reply(Error(<<"I", "n", "v", "a", "l", "i", "d", " ", "k", "e", "y">>), h)
    ELSE IF h.fault THEN Reply(Error(<<"G", "E", "T", " ", "f", "a", "i", "l", "e", "d">>), h)
    ELSE LET st == storage_get(h.data, h.count, t, args[1].v[1])
         IN  ReplyStored(BulkString(st.ret[2]), st, h)

\* the loop of handle_del over args[i..]
RECURSIVE DelLoop(_, _, _, _)
DelLoop(args, i, h, deleted_count) ==
    IF i > Len(args) THEN Reply(Integer(deleted_count), h)
    ELSE IF ~IsBulk(args[i]) THEN DelLoop(args, i + 1, h, deleted_count)
    ELSE IF h.fault THEN DelLoop(args, i + 1, h, deleted_count)
    ELSE LET st == storage_delete(h.data, h.count, args[i].v[1])
         IN  DelLoop(args, i + 1,
                     [h EXCEPT !.data = st.data, !.count = st.count],
                     IF st.ret = RetBool(TRUE) THEN deleted_count + 1
                     ELSE deleted_count)

\* Handler::handle_del
handle_del(args, h) ==
    IF Len(args) = 0 THEN Reply(Error(<<"W", "r", "o", "n", "g", " ", "n", "u", "m", "b", "e", "r", " ", "o", "f", " ", "a", "r", "g", "u", "m", "e", "n", "t", "s", " ", "f", "o", "r", " ", "D", "E", "L">>), h)
    ELSE DelLoop(args, 1, h, 0)

\* the loop of handle_exists over args[i..]
RECURSIVE ExistsLoop(_, _, _, _, _)
ExistsLoop(args, i, h, t, exists_count) ==
    IF i > Len(args) THEN Reply(Integer(exists_count), h)
    ELSE IF ~IsBulk(args[i]) THEN ExistsLoop(args, i + 1, h, t, exists_count)
    ELSE IF h.fault THEN ExistsLoop(args, i + 1, h, t, exists_count)
    ELSE LET st == storage_exists(h.data, h.count, t, args[i].v[1])
         IN  ExistsLoop(args, i + 1,
                        [h EXCEPT !.data = st.data, !.count = st.count], t,
                        IF st.ret = RetBool(TRUE) THEN exists_count + 1
                        ELSE exists_count)

\* Handler::handle_exists
handle_exists(args, h, t) ==
    IF Len(args) = 0 THEN Reply(Error(<<"W", "r", "o", "n", "g", " ", "n", "u", "m", "b", "e", "r", " ", "o", "f", " ", "a", "r", "g", "u", "m", "e", "n", "t", "s", " ", "f", "o", "r", " ", "E", "X", "I", "S", "T", "S">>), h)
    ELSE ExistsLoop(args, 1, h, t, 0)

\* Handler::handle_dbsize: count as i64
handle_dbsize(h) ==
    IF h.fault THEN Reply(Error(<<"D", "B", "S", "I", "Z", "E", " ", "f", "a", "i", "l", "e", "d">>), h)
    ELSE Reply(Integer(storage_keys_count(h.data, h.count).ret[2]), h)

\* Handler::handle_flushdb
handle_flushdb(h) ==
    IF h.fault THEN Reply(Error(<<"F", "L", "U", "S", "H", "D", "B", " ", "f", "a", "i", "l", "e", "d">>), h)
    ELSE ReplyStored(SimpleString(<<"O", "K">>), storage_flush(h.data, h.count), h)

\* Handler::handle_command_info
handle_command_info(h) == Reply(Array(Some(<<>>)), h)

\* Config::default(): server.port, server.host, storage
ConfigPort == 6379

ConfigHost == <<"1", "2", "7", ".", "0", ".", "0", ".", "1">>

ConfigBackend == <<"m", "e", "m", "o", "r", "y">>

Bulk(s) == BulkString(Some(s))

\* a table lookup that answers for whatever it is asked
ConfigEntriesEcho(param_lower) == <<Bulk(param_lower), Bulk(<<"0">>)>>

\* the entries handle_config pushes for one (lower-cased) parameter
ConfigEntries(param_lower) ==
    LET port == <<Bulk(<<"p", "o", "r", "t">>), Bulk(NatToBytes(ConfigPort))>>
        bind == <<Bulk(<<"b", "i", "n", "d">>), Bulk(ConfigHost)>>
        backend == <<Bulk(<<"s", "t", "o", "r", "a", "g", "e", "-", "b", "a", "c", "k", "e", "n", "d">>), Bulk(ConfigBackend)>>
        maxmemory == <<Bulk(<<"m", "a", "x", "m", "e", "m", "o", "r", "y">>), Bulk(<<"0">>)>>
        policy == <<Bulk(<<"m", "a", "x", "m", "e", "m", "o", "r", "y", "-", "p", "o", "l", "i", "c", "y">>), Bulk(<<"n", "o", "e", "v", "i", "c", "t", "i", "o", "n">>)>>
        save == <<Bulk(<<"s", "a", "v", "e">>), Bulk(<<>>)>>
        appendonly == <<Bulk(<<"a", "p", "p", "e", "n", "d", "o", "n", "l", "y">>), Bulk(<<"n", "o">>)>>
        databases == <<Bulk(<<"d", "a", "t", "a", "b", "a", "s", "e", "s">>), Bulk(<<"1">>)>>
    IN  CASE param_lower = <<"p", "o", "r", "t">> -> port
          [] param_lower \in {<<"b", "i", "n", "d">>, <<"h", "o", "s", "t">>} -> bind
          [] param_lower \in {<<"s", "t", "o", "r", "a", "g", "e">>, <<"s", "t", "o", "r", "a", "g", "e", "-", "b", "a", "c", "k", "e", "n", "d">>} -> backend
          [] param_lower = <<"m", "a", "x", "m", "e", "m", "o", "r", "y">> -> maxmemory
          [] param_lower = <<"m", "a", "x", "m", "e", "m", "o", "r", "y", "-", "p", "o", "l", "i", "c", "y">> -> policy
          [] param_lower = <<"s", "a", "v", "e">> -> save
          [] param_lower = <<"a", "p", "p", "e", "n", "d", "o", "n", "l", "y">> -> appendonly
          [] param_lower = <<"d", "a", "t", "a", "b", "a", "s", "e", "s">> -> databases
          [] param_lower = <<"*">> ->
                port \o bind \o backend \o maxmemory \o policy \o save
                     \o appendonly \o databases
          [] OTHER -> <<>>

\* the loop of handle_config over args[i..]
RECURSIVE ConfigLoop(_, _, _)
ConfigLoop(args, i, results) ==
    IF i > Len(args) THEN results
    ELSE IF ~IsBulk(args[i]) THEN ConfigLoop(args, i + 1, results)
    ELSE ConfigLoop(args, i + 1,
                    results \o ConfigEntries(LowerStr(args[i].v[1])))

\* Handler::handle_config
handle_config(args, h) ==
    IF Len(args) = 0 THEN Reply(Error(<<"W", "r", "o", "n", "g", " ", "n", "u", "m", "b", "e", "r", " ", "o", "f", " ", "a", "r", "g", "u", "m", "e", "n", "t", "s", " ", "f", "o", "r", " ", "C", "O", "N", "F", "I", "G">>), h)
    ELSE IF ~IsBulk(args[1]) THEN Reply(Error(<<"I", "n", "v", "a", "l", "i", "d", " ", "C", "O", "N", "F", "I", "G", " ", "s", "u", "b", "c", "o", "m", "m", "a", "n", "d">>), h)
    ELSE IF ~eq_ignore_ascii_case(args[1].v[1], <<"G", "E", "T">>)
         THEN Reply(Error(<<"U", "n", "k", "n", "o", "w", "n", " ", "C", "O", "N", "F", "I", "G", " ", "s", "u", "b", "c", "o", "m", "m", "a", "n", "d", ":", " ">> \o args[1].v[1]
                              \o <<".", " ", "S", "u", "p", "p", "o", "r", "t", "e", "d", ":", " ", "G", "E", "T">>), h)
    ELSE IF Len(args) < 2
         THEN Reply(Error(<<"W", "r", "o", "n", "g", " ", "n", "u", "m", "b", "e", "r", " ", "o", "f", " ", "a", "r", "g", "u", "m", "e", "n", "t", "s", " ", "f", "o", "r", " ", "C", "O", "N", "F", "I", "G", " ", "G", "E", "T">>), h)
    ELSE Reply(Array(Some(ConfigLoop(args, 2, <<>>))), h)

\* u8::MAX
U8Max == 255

\* str::parse::<u8>
ParseU8(s) ==
    IF ParseU64(s) # None /\ ParseU64(s)[1] <= U8Max THEN ParseU64(s) ELSE None

\* the reply handle_hello builds for the connection's protocol version
HelloReply(pv) ==
    IF pv = "Resp3"
    THEN Map(<< <<Bulk(<<"s", "e", "r", "v", "e", "r">>), Bulk(<<"c", "o", "r", "a", "l", "-", "r", "e", "d", "i", "s">>)>>,
                <<Bulk(<<"v", "e", "r", "s", "i", "o", "n">>), Bulk(<<"0", ".", "1", ".", "0">>)>>,
                <<Bulk(<<"p", "r", "o", "t", "o">>), Integer(3)>>,
                <<Bulk(<<"m", "o", "d", "e">>), Bulk(<<"s", "t", "a", "n", "d", "a", "l", "o", "n", "e">>)>>,
                <<Bulk(<<"r", "o", "l", "e">>), Bulk(<<"m", "a", "s", "t", "e", "r">>)>> >>)
    ELSE Array(Some(<<Bulk(<<"s", "e", "r", "v", "e", "r">>), Bulk(<<"c", "o", "r", "a", "l", "-", "r", "e", "d", "i", "s">>),
                      Bulk(<<"v", "e", "r", "s", "i", "o", "n">>), Bulk(<<"0", ".", "1", ".", "0">>),
                      Bulk(<<"p", "r", "o", "t", "o">>), Integer(2),
                      Bulk(<<"m", "o", "d", "e">>), Bulk(<<"s", "t", "a", "n", "d", "a", "l", "o", "n", "e">>),
                      Bulk(<<"r", "o", "l", "e">>), Bulk(<<"m", "a", "s", "t", "e", "r">>)>>))

\* a handle_hello that switches to RESP3 before it validates the version
handle_helloEager(args, h) ==
    IF Len(args) > 0 /\ IsBulk(args[1])
          /\ ParseU8(args[1].v[1]) \notin {Some(2), Some(3)}
    THEN Reply(Error(<<"E", "R", "R">>), [h EXCEPT !.pv = "Resp3"])
    ELSE Reply(HelloReply(h.pv), h)

\* Handler::handle_hello
handle_hello(args, h) ==
    IF Len(args) = 0 THEN Reply(HelloReply(h.pv), h)
    ELSE IF ~IsBulk(args[1])
         THEN Reply(Error(<<"E", "R", "R", " ", "p", "r", "o", "t", "o", "c", "o", "l", " ", "v", "e", "r", "s", "i", "o", "n", " ", "m", "u", "s", "t", " ", "b", "e", " ", "a", " ", "s", "t", "r", "i", "n", "g">>), h)
    ELSE LET v == ParseU8(args[1].v[1])
         IN  IF v = None
             THEN Reply(Error(<<"E", "R", "R", " ", "p", "r", "o", "t", "o", "c", "o", "l", " ", "v", "e", "r", "s", "i", "o", "n", " ", "m", "u", "s", "t", " ", "b", "e", " ", "a", " ", "n", "u", "m", "b", "e", "r">>), h)
             ELSE IF v[1] = 2
                  THEN Reply(HelloReply("Resp2"), [h EXCEPT !.pv = "Resp2"])
             ELSE IF v[1] = 3
                  THEN Reply(HelloReply("Resp3"), [h EXCEPT !.pv = "Resp3"])
             ELSE Reply(Error(<<"E", "R", "R", " ", "u", "n", "s", "u", "p", "p", "o", "r", "t", "e", "d", " ", "p", "r", "o", "t", "o", "c", "o", "l", " ", "v", "e", "r", "s", "i", "o", "n", ":", " ">>
                                  \o NatToBytes(v[1])), h)

(***************************************************************************)
(* Metrics.  An observation is one call on an instrument with its labels;  *)
(* the instruments for storage operations and keys are left out.           *)
(***************************************************************************)
Observation(instrument, error_type, command) ==
    [instrument |-> instrument, error_type |-> error_type, command |-> command]

\* Metrics::record_request
record_request ==
    <<Observation("requests_total", None, None),
      Observation("request_duration", None, None)>>

\* Metrics::record_command
record_command(command) ==
    <<Observation("commands_total", None, Some(command)),
      Observation("command_duration", None, Some(command))>>

\* Metrics::record_error
record_error(error_type, command) ==
    <<Observation("errors_total", Some(error_type), command)>>

\* what Handler::handle_command reports to Metrics
handle_command_metrics(frame) ==
    IF frame.t = "Array" /\ frame.v # None /\ Len(frame.v[1]) > 0
    THEN LET parts == frame.v[1]
         IN  IF ~IsBulk(parts[1]) THEN record_error("invalid_command_format", None)
             ELSE LET cmd_str == parts[1].v[1]
                  IN  (IF normalize_command(cmd_str) \in
                              {<<"p", "i", "n", "g">>, <<"s", "e", "t">>, <<"g", "e", "t">>, <<"d", "e", "l">>, <<"e", "x", "i", "s", "t", "s">>,
                               <<"d", "b", "s", "i", "z", "e">>, <<"f", "l", "u", "s", "h", "d", "b">>, <<"c", "o", "m", "m", "a", "n", "d">>, <<"h", "e", "l", "l", "o">>,
                               <<"c", "o", "n", "f", "i", "g">>}
                       THEN <<>>
                       ELSE record_error("unknown_command", Some(cmd_str)))
                          \o record_command(cmd_str)
    ELSE record_error("invalid_command_format", None)

\* Handler::handle_command
handle_command(frame, h, t) ==
    IF frame.t = "Array" /\ frame.v # None /\ Len(frame.v[1]) > 0
    THEN LET parts == frame.v[1]
         IN  IF ~IsBulk(parts[1]) THEN Reply(Error(<<"I", "n", "v", "a", "l", "i", "d", " ", "c", "o", "m", "m", "a", "n", "d", " ", "f", "o", "r", "m", "a", "t">>), h)
             ELSE LET cmd_str == parts[1].v[1]
                      name == normalize_command(cmd_str)
                      args == Tail(parts)
                  IN  CASE name = <<"p", "i", "n", "g">> -> handle_ping(args, h)
                        [] name = <<"s", "e", "t">> -> handle_set(args, h, t)
                        [] name = <<"g", "e", "t">> -> handle_get(args, h, t)
                        [] name = <<"d", "e", "l">> -> handle_del(args, h)
                        [] name = <<"e", "x", "i", "s", "t", "s">> -> handle_exists(args, h, t)
                        [] name = <<"d", "b", "s", "i", "z", "e">> -> handle_dbsize(h)
                        [] name = <<"f", "l", "u", "s", "h", "d", "b">> -> handle_flushdb(h)
                        [] name = <<"c", "o", "m", "m", "a", "n", "d">> -> handle_command_info(h)
                        [] name = <<"h", "e", "l", "l", "o">> -> handle_hello(args, h)
                        [] name = <<"c", "o", "n", "f", "i", "g">> -> handle_config(args, h)
                        [] OTHER -> Reply(Error(<<"U", "n", "k", "n", "o", "w", "n", " ", "c", "o", "m", "m", "a", "n", "d", ":", " ">> \o cmd_str), h)
    ELSE Reply(Error(<<"I", "n", "v", "a", "l", "i", "d", " ", "c", "o", "m", "m", "a", "n", "d", " ", "f", "o", "r", "m", "a", "t">>), h)

(***************************************************************************)
(* One connection task (Handler::handle_stream) with its client, the       *)
(* background cleanup task and the clock.  Tracing calls are left out:    *)
(* they touch no state modelled here.                                      *)
(***************************************************************************)
\* let mut buffer = [0; 1024]
ReadBufferSize == 1024

MaxSends == 2

\* the sizes of the short reads modelled, and how many reads a run may
\* make before every read returns all the bytes in the socket
PartialReads == {1, 3}

MaxReads == 3

\* a command as clients encode it: an array of bulk strings
Cmd(parts) == Array(Some([i \in 1..Len(parts) |-> Bulk(parts[i])]))

PingFrame == Cmd(<<<<"P", "I", "N", "G">>>>)

GetFrame == Cmd(<<<<"G", "E", "T">>, <<"k">>>>)

SetFrame == Cmd(<<<<"s", "e", "t">>, <<"k">>, <<"v">>>>)

SetExFrame == Cmd(<<<<"S", "E", "T">>, <<"k">>, <<"w">>, <<"e", "x">>, <<"1">>>>)

DbsizeFrame == Cmd(<<<<"D", "B", "S", "I", "Z", "E">>>>)

DelFrame == Cmd(<<<<"D", "e", "l">>, <<"k">>, <<"k">>>>)

\* a bulk string with a negative length other than -1
BadBulk == <<"$", "-", "5", CR, LF>>

\* an empty inline line and, behind it, a complete PING
BlankThenPing == CRLF \o to_bytes(PingFrame)

\* what the client may send in one write
ClientMessages ==
    { to_bytes(PingFrame),
      to_bytes(SetFrame),
      to_bytes(SetExFrame),
      to_bytes(GetFrame),
      to_bytes(DbsizeFrame) \o to_bytes(DelFrame),
      BadBulk,
      <<"#", "x", CR, LF>> \o to_bytes(GetFrame),
      <<"E", "X", "I", "S", "T", "S", " ", "k">> \o CRLF,
      to_bytes(Cmd(<<<<"H", "E", "L", "L", "O">>, <<"3">>>>)),
      to_bytes(Cmd(<<<<"C", "O", "N", "F", "I", "G">>, <<"G", "E", "T">>, <<"p", "o", "r", "t">>>>)) \o to_bytes(Cmd(<<<<"C", "O", "M", "M", "A", "N", "D">>>>)),
      to_bytes(Cmd(<<<<"F", "L", "U", "S", "H", "D", "B">>>>)) \o to_bytes(Cmd(<<<<"F", "O", "O">>>>)),
      BlankThenPing }

Min(a, b) == IF a < b THEN a ELSE b

\* stream.write_all(bytes): the frames written to the socket so far
write_all(out, bytes) == Append(out, bytes)

\* A flush that pushes nothing to the socket.
flushNothing(n, out) == n

\* stream.flush(): everything written so far has been flushed
flush(n, out) == Len(out)

HandlerInit ==
    /\ hpc = "read"
    /\ wire = <<>>
    /\ sendsLeft = MaxSends
    /\ hbuf = <<>>
    /\ pentry = <<>>
    /\ reads = <<>>
    /\ value = NoValue
    /\ response = NoValue
    /\ written = <<>>
    /\ flushed = 0
    /\ log = <<>>
    /\ protocol_version = "Resp2"
    /\ observed = <<>>

\* the client writes a message to its end of the socket, once the task has
\* read what it sent before
ClientSend(m) ==
    /\ hpc \notin {"closed", "failed"}
    /\ sendsLeft > 0
    /\ wire = <<>>
    /\ wire' = wire \o m
    /\ sendsLeft' = sendsLeft - 1
    /\ UNCHANGED <<observed, hpc, hbuf, pentry, reads, value, response, written, flushed,
                   log, protocol_version, codecVars, storeVars, taskVars>>

\* let n = stream.read(&mut buffer).await?; parser.add_data(&buffer[0..n])
ReadChunk(n) ==
    /\ hpc = "read"
    /\ n \in 1..Min(Len(wire), ReadBufferSize)
    /\ \/ n = Min(Len(wire), ReadBufferSize)
       \/ n \in PartialReads /\ Len(reads) < MaxReads
    /\ hbuf' = add_data(hbuf, SubSeq(wire, 1, n))
    /\ reads' = Append(reads, SubSeq(wire, 1, n))
    /\ wire' = Advance(wire, n)
    /\ hpc' = "parse"
    /\ UNCHANGED <<observed, sendsLeft, pentry, value, response, written, flushed, log,
                   protocol_version, codecVars, storeVars, taskVars>>

\* if n == 0 { break }: the client has closed its end
ReadEof ==
    /\ hpc = "read"
    /\ wire = <<>>
    /\ sendsLeft = 0
    /\ hpc' = "closed"
    /\ UNCHANGED <<observed, wire, sendsLeft, hbuf, pentry, reads, value, response,
                   written, flushed, log, protocol_version, codecVars,
                   storeVars, taskVars>>

\* match parser.parse() { Ok(Some(value)) => ...
ParseFrame ==
    /\ hpc = "parse"
    /\ parse(hbuf).r = "ok"
    /\ pentry' = hbuf
    /\ hbuf' = parse(hbuf).rest
    /\ value' = parse(hbuf).val
    /\ hpc' = "dispatch"
    /\ UNCHANGED <<observed, wire, sendsLeft, reads, response, written, flushed, log,
                   protocol_version, codecVars, storeVars, taskVars>>

\* Ok(None) => break
ParseNone ==
    /\ hpc = "parse"
    /\ parse(hbuf).r = "none"
    /\ pentry' = hbuf
    /\ hbuf' = parse(hbuf).rest
    /\ hpc' = "read"
    /\ UNCHANGED <<observed, wire, sendsLeft, reads, value, response, written, flushed,
                   log, protocol_version, codecVars, storeVars, taskVars>>

\* format!("ERR Protocol error: {}", e)
ProtocolError(e) == Error(<<"E", "R", "R", " ", "P", "r", "o", "t", "o", "c", "o", "l", " ", "e", "r", "r", "o", "r", ":", " ">> \o e)

\* one record per frame or fault the task has taken up: the buffer at the
\* entry of its parse() call, the number of reads made so far, the response
LogEntry(kind, v, e, resp) ==
    [kind |-> kind, value |-> v, entry |-> e, nreads |-> Len(reads),
     response |-> resp]

\* Err(e) => let error = RespValue::Error(...)
ParseErr ==
    /\ hpc = "parse"
    /\ parse(hbuf).r = "err"
    /\ pentry' = hbuf
    /\ hbuf' = parse(hbuf).rest
    /\ response' = ProtocolError(parse(hbuf).val)
    /\ log' = Append(log, LogEntry("fault", NoValue, hbuf,
                                    ProtocolError(parse(hbuf).val)))
    /\ observed' = record_error("protocol_error", None)
    /\ hpc' = "err_write"
    /\ UNCHANGED <<wire, sendsLeft, reads, value, written, flushed,
                   protocol_version, codecVars, storeVars, taskVars>>

\* let response = self.handle_command(value).await;
\* metrics.record_request(duration)
\* (the backend is MemoryStorage, whose calls never return Err)
Dispatch ==
    /\ hpc = "dispatch"
    /\ LET r == handle_command(value,
                               [data |-> data, count |-> approximate_count,
                                pv |-> protocol_version, fault |-> FALSE],
                               now)
       IN  /\ response' = r.response
           /\ data' = r.data
           /\ approximate_count' = r.count
           /\ protocol_version' = r.pv
           /\ log' = Append(log, LogEntry("command", value, pentry, r.response))
    /\ observed' = handle_command_metrics(value) \o record_request
    /\ hpc' = "write"
    /\ UNCHANGED <<wire, sendsLeft, hbuf, pentry, reads, value, written,
                   flushed, now, codecVars, taskVars>>

\* stream.write_all(&response_bytes).await?
Write ==
    /\ hpc = "write"
    /\ written' = write_all(written, to_bytes(response))
    /\ hpc' = "flush"
    /\ UNCHANGED <<observed, wire, sendsLeft, hbuf, pentry, reads, value, response,
                   flushed, log, protocol_version, codecVars, storeVars,
                   taskVars>>

\* stream.flush().await?, then the next turn of the parse loop
Flush ==
    /\ hpc = "flush"
    /\ flushed' = flush(flushed, written)
    /\ hpc' = "parse"
    /\ UNCHANGED <<observed, wire, sendsLeft, hbuf, pentry, reads, value, response,
                   written, log, protocol_version, codecVars, storeVars,
                   taskVars>>

\* the error arm: stream.write_all(&error_bytes).await?
ErrWrite ==
    /\ hpc = "err_write"
    /\ written' = write_all(written, to_bytes(response))
    /\ hpc' = "err_flush"
    /\ UNCHANGED <<observed, wire, sendsLeft, hbuf, pentry, reads, value, response,
                   flushed, log, protocol_version, codecVars, storeVars,
                   taskVars>>

\* the error arm: stream.flush().await?; parser.reset(); break
ErrFlush ==
    /\ hpc = "err_flush"
    /\ flushed' = flush(flushed, written)
    /\ hbuf' = reset(hbuf)
    /\ hpc' = "read"
    /\ UNCHANGED <<observed, wire, sendsLeft, pentry, reads, value, response, written,
                   log, protocol_version, codecVars, storeVars, taskVars>>

\* a read, write_all or flush returns Err: `?` ends handle_stream
IoFault ==
    /\ hpc \in {"read", "write", "flush", "err_write", "err_flush"}
    /\ hpc' = "failed"
    /\ UNCHANGED <<observed, wire, sendsLeft, hbuf, pentry, reads, value, response,
                   written, flushed, log, protocol_version, codecVars,
                   storeVars, taskVars>>


CodecParked ==
    /\ input = <<>> /\ buffer = <<>> /\ frames = <<>>
    /\ presult = "fresh" /\ entry = <<>> /\ sent = <<>>

ConnParked ==
    /\ hpc = "read" /\ wire = <<>> /\ sendsLeft = 0 /\ hbuf = <<>>
    /\ pentry = <<>> /\ reads = <<>>
    /\ value = NoValue /\ response = NoValue /\ written = <<>>
    /\ flushed = 0 /\ log = <<>> /\ protocol_version = "Resp2"
    /\ observed = <<>>

StoreInit == CodecParked /\ ConnParked /\ BackendInit /\ TasksInit

StoreNext ==
    \/ \E p \in Conns, k \in StoreKeys, v \in StoreValues : SetCall(p, k, v)
    \/ \E p \in Conns, k \in StoreKeys, v \in StoreValues, ttl \in Ttls :
           SetWithExpiryCall(p, k, v, ttl)
    \/ \E p \in Conns : SetInsert(p)
    \/ \E p \in Conns : SetCount(p)
    \/ \E p \in Conns, k \in StoreKeys : GetCall(p, k)
    \/ \E p \in Conns, k \in StoreKeys : ExistsCall(p, k)
    \/ \E p \in Conns : EvictRemove(p)
    \/ \E p \in Conns : EvictCount(p)
    \/ \E p \in Conns, k \in StoreKeys : DeleteCall(p, k)
    \/ \E p \in Conns : DeleteCount(p)
    \/ \E p \in Conns : KeysCountCall(p)
    \/ \E p \in Conns : FlushCall(p)
    \/ \E p \in Conns : FlushStore(p)
    \/ SweepScan
    \/ \E k \in StoreKeys : SweepRemove(k)
    \/ SweepCount
    \/ Tick

StoreSpec == StoreInit /\ [][StoreNext]_vars


CodecInit == CodecFeedInit /\ ConnParked /\ BackendInit /\ TasksInit

CodecNext ==
    \/ \E n \in 1..Len(input) : Feed(n)
    \/ ParseCall
    \/ ResetCall

CodecSpec == CodecInit /\ [][CodecNext]_vars

ConnInit == CodecParked /\ HandlerInit /\ BackendInit /\ TasksInit

ConnNext ==
    \/ \E m \in ClientMessages : ClientSend(m)
    \/ \E n \in 1..Len(wire) : ReadChunk(n)
    \/ ReadEof
    \/ ParseFrame
    \/ ParseNone
    \/ ParseErr
    \/ Dispatch
    \/ Write
    \/ Flush
    \/ ErrWrite
    \/ ErrFlush
    \/ IoFault
    \/ SweepScan
    \/ \E k \in StoreKeys : SweepRemove(k)
    \/ SweepCount
    \/ Tick

ConnSpec == ConnInit /\ [][ConnNext]_vars


(***************************************************************************)
(* Properties of the storage backend                                       *)
(***************************************************************************)
Quiescent == sweep_pc = "idle" /\ \A p \in Conns : pc[p] = "idle"

SetKinds == {"set", "set_with_expiry"}

C6_LazyEviction ==
    [][\A p \in Conns :
          /\ (pc[p] = "idle" /\ pc'[p] # "idle" /\ call'[p].op \in {"get", "exists"}) =>
                 (call'[p].expired /\ pc'[p] = "remove")
          /\ (pc[p] = "idle" /\ pc'[p] = "idle" /\ hist'[p] # hist[p]
                 /\ call'[p].op \in {"get", "exists"}) => ~call'[p].expired
          /\ (pc[p] = "remove" /\ pc'[p] # "remove") =>
                 /\ call[p].key \notin DOMAIN data'
                 /\ (pc'[p] = "sub") = (call[p].key \in DOMAIN data)
                 /\ pc'[p] = "idle" =>
                        /\ ret'[p] = Absent(call[p].op)
                        /\ approximate_count' = approximate_count
          /\ (pc[p] = "sub" /\ call[p].op \in {"get", "exists"} /\ pc'[p] = "idle") =>
                 /\ ret'[p] = Absent(call[p].op)
                 /\ approximate_count' = approximate_count - 1
      ]_vars

\* A read has found an expired record, removed it and returned absent.
C6_Witness ==
    \E p \in Conns :
        /\ pc[p] = "idle" /\ call[p].op \in {"get", "exists"}
        /\ call[p].expired /\ call[p].existed
        /\ ret[p] = Absent(call[p].op)
        /\ call[p].key \notin DOMAIN data

C8_CountConverges ==
    (Quiescent /\ ExpiredKeys(data, now) = {}) =>
        approximate_count = Cardinality(DOMAIN data)

AllCalls(h, names) == Len(h) > 0 /\ \A i \in 1..Len(h) : h[i] \in names

\* C9: flush is atomic with respect to the other operations: after a
\* completed run in which one connection only flushed and the other only
\* called set, the map and the key counter agree.
C9_FlushTotalOrder ==
    \A p \in Conns, q \in Conns :
        (Quiescent /\ AllCalls(hist[p], {"flush"}) /\ AllCalls(hist[q], {"set"})) =>
            approximate_count = Cardinality(DOMAIN data)

\* C10: when the latest calls of two connections are completed sets of the
\* same key and the key's entry has not been removed since, the entry is
\* the whole record one of the two calls built: never a mixture.
C10_ConcurrentSets ==
    \A p \in Conns, q \in Conns, k \in StoreKeys :
        (/\ p # q
         /\ pc[p] = "idle" /\ call[p].op \in SetKinds /\ call[p].key = k
         /\ pc[q] = "idle" /\ call[q].op \in SetKinds /\ call[q].key = k
         /\ last_write[k].kind \in SetKinds) =>
            /\ k \in DOMAIN data
            /\ data[k] \in {call[p].rec[1], call[q].rec[1]}

\* Two sets of one key with different values overlapped (each found the
\* key absent before either inserted) and both have completed.
C10_Witness ==
    \E p \in Conns, q \in Conns, k \in StoreKeys :
        /\ p # q
        /\ pc[p] = "idle" /\ call[p].op \in SetKinds /\ call[p].key = k
        /\ pc[q] = "idle" /\ call[q].op \in SetKinds /\ call[q].key = k
        /\ call[p].is_new /\ call[q].is_new
        /\ call[p].value # call[q].value
        /\ call[p].op # call[q].op
        /\ k \in DOMAIN data


(***************************************************************************)
(* Properties of the RESP parser                                           *)
(***************************************************************************)
\* C1: a parse() call that reports "no frame yet" leaves the buffer exactly
\* as it was when the call was entered.
C1_ParseNonDestructive == presult = "none" => buffer = entry

\* C2: once the bytes of two encoded frames have all been delivered, in
\* whatever chunks, and the parser reports that nothing more is buffered,
\* the frames it has yielded are the two frames that were encoded, in order.
C2_ChunkingIndependent ==
    (sent # <<>> /\ input = <<>> /\ presult = "none") => frames = sent

(***************************************************************************)
(* Properties of the connection task                                       *)
(***************************************************************************)
\* the connection task takes a step
TaskStep == hpc' # hpc

StoreUntouched == data' = data /\ approximate_count' = approximate_count

\* commands a client may send after a fault, with their normal responses
RecoveryResponses(f) ==
    CASE f = PingFrame -> {SimpleString(<<"P", "O", "N", "G">>)}
      [] f \in {SetFrame, SetExFrame} -> {SimpleString(<<"O", "K">>)}
      [] f = GetFrame -> {BulkString(None), Bulk(<<"v">>), Bulk(<<"w">>)}

RecoveryFrames == {PingFrame, SetFrame, SetExFrame, GetFrame}

\* C3: when parse() reports a malformed frame the task writes the error
\* frame "ERR Protocol error: <detail>", flushes it, resets the codec to an
\* empty buffer and goes back to reading; none of these steps closes the
\* connection or touches the backend.  A well-formed command that arrives
\* in the next read is parsed as sent and gets its normal response.
C3_ProtocolFaultRecovery ==
    /\ [][/\ (hpc = "parse" /\ parse(hbuf).r = "err" /\ TaskStep) =>
                 /\ hpc' = "err_write"
                 /\ response' = Error(<<"E", "R", "R", " ", "P", "r", "o", "t", "o", "c", "o", "l", " ", "e", "r", "r", "o", "r", ":", " ">> \o parse(hbuf).val)
                 /\ StoreUntouched
          /\ (hpc = "err_write" /\ TaskStep) =>
                 /\ \/ hpc' = "failed"
                    \/ /\ hpc' = "err_flush"
                       /\ written' = Append(written, to_bytes(response))
                 /\ StoreUntouched
          /\ (hpc = "err_flush" /\ TaskStep) =>
                 /\ \/ hpc' = "failed"
                    \/ /\ hpc' = "read"
                       /\ hbuf' = <<>>
                       /\ flushed' = Len(written)
                 /\ StoreUntouched
        ]_vars
    /\ [](\A i \in 1..Len(log) :
            /\ (log[i].kind = "fault" /\ log[i].entry = BadBulk) =>
                   log[i].response =
                       Error(<<"E", "R", "R", " ", "P", "r", "o", "t", "o", "c", "o", "l", " ", "e", "r", "r", "o", "r", ":", " ", "I", "n", "v", "a", "l", "i", "d", " ", "b", "u", "l", "k", " ", "s", "t", "r", "i", "n", "g", " ", "l", "e", "n", "g", "t", "h">>)
            /\ (/\ i > 1
                /\ log[i - 1].kind = "fault"
                /\ log[i].nreads = log[i - 1].nreads + 1
                /\ \E f \in RecoveryFrames : reads[log[i].nreads] = to_bytes(f)) =>
                   /\ log[i].kind = "command"
                   /\ log[i].value \in RecoveryFrames
                   /\ reads[log[i].nreads] = to_bytes(log[i].value)
                   /\ log[i].response \in RecoveryResponses(log[i].value)
                   /\ i <= Len(written) => written[i] = to_bytes(log[i].response))

\* '$-5\r\n' then PING: the error frame, then +PONG, both flushed, the
\* connection still open.
C3_Witness ==
    /\ Len(log) = 2 /\ Len(written) = 2 /\ flushed = 2
    /\ hpc \in {"parse", "read"}
    /\ log[1].kind = "fault" /\ log[1].entry = BadBulk
    /\ log[2].kind = "command" /\ log[2].value = PingFrame
    /\ written[1] = <<"-">> \o <<"E", "R", "R", " ", "P", "r", "o", "t", "o", "c", "o", "l", " ", "e", "r", "r", "o", "r", ":", " ", "I", "n", "v", "a", "l", "i", "d", " ", "b", "u", "l", "k", " ", "s", "t", "r", "i", "n", "g", " ", "l", "e", "n", "g", "t", "h">> \o CRLF
    /\ written[2] = <<"+">> \o <<"P", "O", "N", "G">> \o CRLF

\* two commands a client pipelines in one write
PipelinedPairs ==
    { <<DbsizeFrame, DelFrame>>,
      <<Cmd(<<<<"F", "L", "U", "S", "H", "D", "B">>>>), Cmd(<<<<"F", "O", "O">>>>)>> }

\* C4: the task takes up one frame at a time, in the order the frames lie
\* in its buffer; every frame taken up gets exactly one response, written
\* in the same order; and a frame is dispatched only when the responses to
\* all frames before it have been written and flushed.
C4_ResponseOrder ==
    /\ Len(written) <= Len(log) /\ Len(log) - Len(written) <= 1
    /\ \A i \in 1..Len(written) : written[i] = to_bytes(log[i].response)
    /\ flushed <= Len(written) /\ Len(written) - flushed <= 1
    /\ hpc = "dispatch" => (Len(written) = Len(log) /\ flushed = Len(log))
    /\ hpc \in {"write", "err_write"} =>
           (Len(written) = Len(log) - 1 /\ flushed = Len(written))
    /\ \A i \in 1..Len(log), pr \in PipelinedPairs :
           log[i].entry = to_bytes(pr[1]) \o to_bytes(pr[2]) =>
               /\ log[i].kind = "command" /\ log[i].value = pr[1]
               /\ i < Len(log) =>
                      /\ log[i + 1].kind = "command"
                      /\ log[i + 1].value = pr[2]
                      /\ log[i + 1].nreads = log[i].nreads

\* Two pipelined commands have been answered in order, each response
\* flushed before the next command was dispatched.
C4_Witness ==
    /\ Len(log) = 2 /\ Len(written) = 2 /\ flushed = 2
    /\ log[1].entry = to_bytes(DbsizeFrame) \o to_bytes(DelFrame)
    /\ log[1].value = DbsizeFrame /\ log[2].value = DelFrame
    /\ written = <<to_bytes(Integer(0)), to_bytes(Integer(0))>>

(***************************************************************************)
(* Expiry under a fairly scheduled backend: every step a storage call or   *)
(* the sweep task has begun is eventually taken (the tokio runtime keeps   *)
(* scheduling the connection tasks and the interval task).  Starting a     *)
(* call and advancing the clock are not forced.                            *)
(***************************************************************************)
StoreFairSpec ==
    /\ StoreInit
    /\ [][StoreNext]_vars
    /\ WF_vars(SweepScan)
    /\ WF_vars(\E k \in StoreKeys : SweepRemove(k))
    /\ WF_vars(SweepCount)
    /\ \A p \in Conns :
           /\ WF_vars(SetInsert(p))
           /\ WF_vars(SetCount(p))
           /\ WF_vars(EvictRemove(p))
           /\ WF_vars(EvictCount(p))
           /\ WF_vars(DeleteCount(p))
           /\ WF_vars(FlushStore(p))

WriteOps == {"set", "set_with_expiry", "delete", "flush"}

\* the writes made so far, as (connection, position in its history)
WritesMade == {w \in Conns \X (1..MaxCalls) :
                  w[2] \in DOMAIN hist[w[1]] /\ hist[w[1]][w[2]] \in WriteOps}

\* exactly one write has been made, and it is a set_with_expiry
SoleExpiringWrite ==
    /\ Cardinality(WritesMade) = 1
    /\ \A w \in WritesMade : hist[w[1]][w[2]] = "set_with_expiry"

\* C11: once the clock is strictly past the expiry of the record a
\* set_with_expiry wrote, a get of the key takes the expired branch and
\* returns absent; and, the sweep and the calls in progress being scheduled
\* fairly, as long as no further write is made the record is eventually
\* gone from the map and the key counter is back to zero.
C11_ExpiryTakesEffect ==
    /\ [][\A p \in Conns, k \in StoreKeys :
              (GetCall(p, k) /\ last_write[k].kind = "set_with_expiry"
                             /\ now > last_write[k].expiry[1])
                  => (call'[p].expired /\ pc'[p] = "remove")]_vars
    /\ [](\A p \in Conns :
              (pc[p] = "idle" /\ call[p].op = "get" /\ call[p].expired)
                  => ret[p] = RetOption(None))
    /\ (SoleExpiringWrite /\ ExpiredKeys(data, now) # {})
           ~> (~SoleExpiringWrite \/ (data = EmptyMap /\ approximate_count = 0))

\* The only write was a set_with_expiry, its record expired untouched and
\* the sweep took it out: the map is empty and the counter is zero.
C11_Witness ==
    /\ SoleExpiringWrite
    /\ Quiescent
    /\ \E k \in StoreKeys : last_write[k].kind = "sweep"
    /\ data = EmptyMap /\ approximate_count = 0

\* C12: keys_count returns the number of records that have not expired,
\* whether or not anything has touched the expired ones.  Stated for the
\* calls made while nothing else is in progress and the counter equals the
\* number of records in the map, so that only expiry is in play.
C12_CountsLiveRecords ==
    [][\A p \in Conns :
           (KeysCountCall(p) /\ Quiescent
                /\ approximate_count = Cardinality(DOMAIN data))
               => ret'[p] = RetUsize(Cardinality(DOMAIN data \ ExpiredKeys(data, now)))]_vars

(***************************************************************************)
(* The remote backend (S3Storage).  The bucket's objects under the prefix  *)
(* are kept in `data`: one S3StorageValue {data, expires_at} per key, as   *)
(* the JSON body of the object holds it.  Every call is one step here.     *)
(***************************************************************************)

\* S3Storage::get: get_object, then the expiry check, then delete(key)
S3Storage_get(b, t, k) ==
    IF MapGet(b, k) = None THEN Done(b, 0, RetOption(None))
    ELSE IF b[k].expires_at # None /\ t > b[k].expires_at[1]
         THEN Done(MapRemove(b, k), 0, RetOption(None))
         ELSE Done(b, 0, RetOption(Some(b[k].data)))

\* S3Storage::exists: head_object answers Ok for any object at the key
S3Storage_exists(b, k) == Done(b, 0, RetBool(MapGet(b, k) # None))

\* S3Storage::set: put_object of {data: value, expires_at: None}
S3SetCall(p, k, v) ==
    /\ CanCall(p)
    /\ data' = MapInsert(data, k, [data |-> v, expires_at |-> None])
    /\ hist' = [hist EXCEPT ![p] = Append(@, "set")]
    /\ Finish(p, [NoCall EXCEPT !.op = "set", !.key = k, !.value = v], RetUnit)
    /\ UNCHANGED <<approximate_count, now, sweep_pc, to_remove, last_write,
                   codecVars, connVars>>

\* S3Storage::set_with_expiry: put_object of {data: value, expires_at: now + ttl}
S3SetWithExpiryCall(p, k, v, ttl) ==
    /\ CanCall(p)
    /\ data' = MapInsert(data, k, [data |-> v, expires_at |-> Some(now + ttl)])
    /\ hist' = [hist EXCEPT ![p] = Append(@, "set_with_expiry")]
    /\ Finish(p, [NoCall EXCEPT !.op = "set_with_expiry", !.key = k, !.value = v,
                                !.ttl = Some(ttl)], RetUnit)
    /\ UNCHANGED <<approximate_count, now, sweep_pc, to_remove, last_write,
                   codecVars, connVars>>

S3GetCall(p, k) ==
    /\ CanCall(p)
    /\ LET r == S3Storage_get(data, now, k)
       IN  /\ data' = r.data
           /\ hist' = [hist EXCEPT ![p] = Append(@, "get")]
           /\ Finish(p, [NoCall EXCEPT !.op = "get", !.key = k,
                                       !.expired = (r.data # data)], r.ret)
    /\ UNCHANGED <<approximate_count, now, sweep_pc, to_remove, last_write,
                   codecVars, connVars>>

S3ExistsCall(p, k) ==
    /\ CanCall(p)
    /\ LET r == S3Storage_exists(data, k)
       IN  /\ hist' = [hist EXCEPT ![p] = Append(@, "exists")]
           /\ Finish(p, [NoCall EXCEPT !.op = "exists", !.key = k], r.ret)
    /\ UNCHANGED <<data, approximate_count, now, sweep_pc, to_remove, last_write,
                   codecVars, connVars>>

\* an empty bucket prefix
S3Init == CodecParked /\ ConnParked /\ BackendInit /\ TasksInit

S3Next ==
    \/ \E p \in Conns, k \in StoreKeys, v \in StoreValues : S3SetCall(p, k, v)
    \/ \E p \in Conns, k \in StoreKeys, v \in StoreValues, ttl \in Ttls :
           S3SetWithExpiryCall(p, k, v, ttl)
    \/ \E p \in Conns, k \in StoreKeys : S3GetCall(p, k)
    \/ \E p \in Conns, k \in StoreKeys : S3ExistsCall(p, k)
    \/ Tick

S3Spec == S3Init /\ [][S3Next]_vars

\* C13: in every reachable state of a backend, states where the key holds
\* an expired record included, exists(k) is true exactly when get(k) in
\* that state returns a value.  Stated here for the remote backend.
C13_ExistsIffGet ==
    \A k \in StoreKeys :
        S3Storage_exists(data, k).ret =
            RetBool(S3Storage_get(data, now, k).ret # RetOption(None))

\* the flush of p is the latest mutation of every key and nothing else runs
FlushAlone(p) ==
    /\ \A q \in Conns \ {p} : pc[q] = "idle"
    /\ sweep_pc = "idle"
    /\ \A k \in StoreKeys : last_write[k].kind = "flush" /\ last_write[k].by = p

\* C14: when a flush completes with no write concurrent to it, the backend
\* holds no key: the map is empty, get is absent and exists is false for
\* every key, and keys_count is 0.  And flush() followed by flush() gives
\* the state and the result of a single flush().
C14_FlushEmpties ==
    /\ [][\A p \in Conns :
              (FlushStore(p) /\ FlushAlone(p)) =>
                  /\ data' = EmptyMap
                  /\ storage_keys_count(data', approximate_count').ret = RetUsize(0)
                  /\ \A k \in StoreKeys :
                         /\ storage_get(data', approximate_count', now', k).ret
                                = RetOption(None)
                         /\ storage_exists(data', approximate_count', now', k).ret
                                = RetBool(FALSE)]_vars
    /\ [](LET once == storage_flush(data, approximate_count)
          IN  storage_flush(once.data, once.count) = once)

\* A connection set a key, flushed, and then read the key back as absent.
C14_Witness ==
    \E p \in Conns :
        /\ hist[p] = <<"set", "flush", "get">>
        /\ pc[p] = "idle" /\ ret[p] = RetOption(None)
        /\ call[p].seen.kind = "flush" /\ call[p].seen.old # None
        /\ data = EmptyMap /\ approximate_count = 0

(***************************************************************************)
(* Handler::handle_command called frame by frame on one connection's       *)
(* Handler, as the unit tests of handler.rs call it.  The backend keeps    *)
(* its records as MemoryStorage does and, standing for any StorageBackend  *)
(* behind the Arc<dyn StorageBackend>, may fail the calls of a command.    *)
(***************************************************************************)
Frame(name, args) == Array(Some(<<Bulk(name)>> \o args))

SetCommands ==
    {Frame(<<"S", "E", "T">>, <<Bulk(<<"k">>)>>),
     Frame(<<"S", "E", "T">>, <<Bulk(<<"k">>), Bulk(<<"v">>)>>),
     Frame(<<"S", "E", "T">>, <<Bulk(<<"k">>), Bulk(<<"v">>), Bulk(<<"x">>)>>),
     Frame(<<"S", "E", "T">>, <<Bulk(<<"k">>), Bulk(<<"w">>), Bulk(<<"E", "X">>), Bulk(<<"1">>)>>),
     Frame(<<"S", "E", "T">>, <<Bulk(<<"k">>), Bulk(<<"w">>), Bulk(<<"E", "X">>), Bulk(<<"1">>), Bulk(<<"x">>)>>),
     Frame(<<"S", "E", "T">>, <<Bulk(<<"k">>), Bulk(<<"w">>), Bulk(<<"E", "X">>), Bulk(<<"s", "o", "o", "n">>)>>),
     Frame(<<"S", "E", "T">>, <<Integer(7), Bulk(<<"v">>)>>),
     Frame(<<"S", "E", "T">>, <<BulkString(None), Bulk(<<"v">>)>>)}

ReadCommands ==
    {Frame(<<"G", "E", "T">>, <<>>),
     Frame(<<"G", "E", "T">>, <<Bulk(<<"k">>)>>),
     Frame(<<"G", "E", "T">>, <<Bulk(<<"k">>), Bulk(<<"k">>)>>),
     Frame(<<"P", "I", "N", "G">>, <<>>),
     Frame(<<"P", "I", "N", "G">>, <<Bulk(<<"a">>)>>),
     Frame(<<"P", "I", "N", "G">>, <<Bulk(<<"a">>), Bulk(<<"b">>)>>),
     Frame(<<"E", "X", "I", "S", "T", "S">>, <<>>),
     Frame(<<"E", "X", "I", "S", "T", "S">>, <<Bulk(<<"k">>)>>),
     Frame(<<"E", "X", "I", "S", "T", "S">>, <<Integer(7)>>),
     Frame(<<"D", "B", "S", "I", "Z", "E">>, <<>>)}

RemoveCommands ==
    {Frame(<<"D", "E", "L">>, <<>>),
     Frame(<<"D", "E", "L">>, <<Bulk(<<"k">>)>>),
     Frame(<<"D", "E", "L">>, <<Integer(7)>>),
     Frame(<<"D", "E", "L">>, <<BulkString(None), Bulk(<<"k">>)>>),
     Frame(<<"F", "L", "U", "S", "H", "D", "B">>, <<>>)}

HelloVersions ==
    {<<"2">>, <<"3">>, <<"0">>, <<"4">>, <<"2", "5", "5">>, <<"2", "5", "6">>, <<"1", "0", "0", "0">>, <<"-", "1">>, <<"+", "3">>,
     <<"t", "h", "r", "e", "e">>, <<>>}

HelloCommands ==
    {Frame(<<"H", "E", "L", "L", "O">>, <<>>), Frame(<<"H", "E", "L", "L", "O">>, <<Integer(3)>>)}
        \cup {Frame(<<"H", "E", "L", "L", "O">>, <<Bulk(ver)>>) : ver \in HelloVersions}

\* commands on several keys, and a second key to store
MultiKeyCommands ==
    {Frame(<<"S", "E", "T">>, <<Bulk(<<"a">>), Bulk(<<"v">>)>>),
     Frame(<<"D", "E", "L">>, <<Bulk(<<"k">>), Bulk(<<"a">>), Bulk(<<"b">>)>>),
     Frame(<<"D", "E", "L">>, <<Bulk(<<"k">>), Bulk(<<"a">>)>>),
     Frame(<<"D", "E", "L">>, <<Bulk(<<"k">>), Bulk(<<"k">>)>>),
     Frame(<<"D", "E", "L">>, <<Bulk(<<"b">>), Bulk(<<"a">>), Bulk(<<"b">>)>>),
     Frame(<<"E", "X", "I", "S", "T", "S">>, <<Bulk(<<"k">>), Bulk(<<"k">>)>>),
     Frame(<<"E", "X", "I", "S", "T", "S">>, <<Bulk(<<"k">>), Bulk(<<"a">>)>>),
     Frame(<<"E", "X", "I", "S", "T", "S">>, <<Bulk(<<"a">>), Bulk(<<"k">>), Bulk(<<"a">>)>>),
     Frame(<<"E", "X", "I", "S", "T", "S">>, <<Bulk(<<"b">>)>>)}

CommandFrames ==
    SetCommands \cup ReadCommands \cup RemoveCommands \cup HelloCommands
        \cup MultiKeyCommands

\* let response = handler.handle_command(f).await
HandleCommand(f, fault) ==
    /\ LET r == handle_command(f, [data |-> data, count |-> approximate_count,
                                   pv |-> protocol_version, fault |-> fault],
                               now)
       IN  /\ value' = f
           /\ response' = r.response
           /\ data' = r.data
           /\ approximate_count' = r.count
           /\ protocol_version' = r.pv
    /\ observed' = handle_command_metrics(f)
    /\ UNCHANGED <<hpc, wire, sendsLeft, hbuf, pentry, reads, written, flushed,
                   log, now, codecVars, taskVars>>

CommandInit == CodecParked /\ ConnParked /\ BackendInit /\ TasksInit

CommandNext ==
    \/ \E f \in CommandFrames, fault \in BOOLEAN : HandleCommand(f, fault)
    \/ Tick

CommandSpec == CommandInit /\ [][CommandNext]_vars

\* commands with a wrong number of arguments, or with an argument that is
\* not a bulk string where a key is required
MalformedCommands ==
    {Frame(<<"S", "E", "T">>, <<Bulk(<<"k">>)>>),
     Frame(<<"S", "E", "T">>, <<Bulk(<<"k">>), Bulk(<<"v">>), Bulk(<<"x">>)>>),
     Frame(<<"S", "E", "T">>, <<Bulk(<<"k">>), Bulk(<<"w">>), Bulk(<<"E", "X">>), Bulk(<<"1">>), Bulk(<<"x">>)>>),
     Frame(<<"S", "E", "T">>, <<Integer(7), Bulk(<<"v">>)>>),
     Frame(<<"S", "E", "T">>, <<BulkString(None), Bulk(<<"v">>)>>),
     Frame(<<"G", "E", "T">>, <<>>),
     Frame(<<"G", "E", "T">>, <<Bulk(<<"k">>), Bulk(<<"k">>)>>),
     Frame(<<"P", "I", "N", "G">>, <<Bulk(<<"a">>), Bulk(<<"b">>)>>),
     Frame(<<"D", "E", "L">>, <<Integer(7)>>),
     Frame(<<"D", "E", "L">>, <<BulkString(None), Bulk(<<"k">>)>>),
     Frame(<<"E", "X", "I", "S", "T", "S">>, <<Integer(7)>>)}

\* C15: a command with a wrong number of arguments (SET with 1, 3 or 5,
\* GET with 0 or 2, PING with 2) or with an Integer or a null bulk string
\* where a key is required (SET, DEL, EXISTS) is answered with an error
\* frame and leaves the store as it was.
C15_MalformedRejected ==
    [][\A f \in MalformedCommands, fault \in BOOLEAN :
           HandleCommand(f, fault) =>
               /\ response'.t = "Error"
               /\ data' = data
               /\ approximate_count' = approximate_count]_vars

\* well-formed commands that call the backend
BackendCommands ==
    {Frame(<<"S", "E", "T">>, <<Bulk(<<"k">>), Bulk(<<"v">>)>>),
     Frame(<<"S", "E", "T">>, <<Bulk(<<"k">>), Bulk(<<"w">>), Bulk(<<"E", "X">>), Bulk(<<"1">>)>>),
     Frame(<<"G", "E", "T">>, <<Bulk(<<"k">>)>>),
     Frame(<<"D", "E", "L">>, <<Bulk(<<"k">>)>>),
     Frame(<<"E", "X", "I", "S", "T", "S">>, <<Bulk(<<"k">>)>>),
     Frame(<<"D", "B", "S", "I", "Z", "E">>, <<>>),
     Frame(<<"F", "L", "U", "S", "H", "D", "B">>, <<>>)}

\* C16: whenever the backend call made by SET, GET, DEL, EXISTS, DBSIZE or
\* FLUSHDB returns an error, the response to the command is an error frame
\* (and the handler goes on serving the connection: the response is
\* returned to handle_stream like any other).
C16_StorageFaultSurfaced ==
    [][\A f \in BackendCommands :
           HandleCommand(f, TRUE) => response'.t = "Error"]_vars

\* HELLO commands that fail: an unsupported number, a non-number, an
\* argument that is not a bulk string
FailingHello ==
    {Frame(<<"H", "E", "L", "L", "O">>, <<Integer(3)>>)}
        \cup {Frame(<<"H", "E", "L", "L", "O">>, <<Bulk(ver)>>) :
                  ver \in HelloVersions \ {<<"2">>, <<"3">>, <<"+", "3">>}}

\* C17: a HELLO that fails is answered with an error and leaves the
\* connection's protocol version as it was, RESP2 or RESP3.
C17_FailedHelloKeepsVersion ==
    [][\A f \in FailingHello, fault \in BOOLEAN :
           HandleCommand(f, fault) =>
               /\ response'.t = "Error"
               /\ protocol_version' = protocol_version]_vars

\* A connection switched to RESP3 is still at RESP3 after HELLO 4 failed.
C17_Witness ==
    /\ value = Frame(<<"H", "E", "L", "L", "O">>, <<Bulk(<<"4">>)>>)
    /\ response.t = "Error"
    /\ protocol_version = "Resp3"

\* the five fields of a HELLO reply, as (name, value) pairs, for version n
HelloFields(pairs, n) ==
    /\ Len(pairs) = 5
    /\ pairs[1][1] = Bulk(<<"s", "e", "r", "v", "e", "r">>) /\ IsBulk(pairs[1][2])
    /\ pairs[2][1] = Bulk(<<"v", "e", "r", "s", "i", "o", "n">>) /\ IsBulk(pairs[2][2])
    /\ pairs[3] = <<Bulk(<<"p", "r", "o", "t", "o">>), Integer(n)>>
    /\ pairs[4] = <<Bulk(<<"m", "o", "d", "e">>), Bulk(<<"s", "t", "a", "n", "d", "a", "l", "o", "n", "e">>)>>
    /\ pairs[5] = <<Bulk(<<"r", "o", "l", "e">>), Bulk(<<"m", "a", "s", "t", "e", "r">>)>>

\* a HELLO reply in the shape of protocol version pv
HelloShape(resp, pv) ==
    IF pv = "Resp3"
    THEN resp.t = "Map" /\ HelloFields(resp.v, 3)
    ELSE /\ resp.t = "Array" /\ resp.v # None /\ Len(resp.v[1]) = 10
         /\ HelloFields([i \in 1..5 |-> <<resp.v[1][2 * i - 1], resp.v[1][2 * i]>>], 2)

\* C18: a connection starts at protocol version 2; HELLO 2 and HELLO 3 set
\* the version, HELLO without argument leaves it; the reply carries server,
\* version, proto, mode = standalone and role = master, with proto the
\* version in force after the command, as a 5-entry map at version 3 and
\* as a flat 10-element array at version 2.
C18_HelloNegotiates ==
    /\ protocol_version = "Resp2"
    /\ [][\A fault \in BOOLEAN :
              /\ HandleCommand(Frame(<<"H", "E", "L", "L", "O">>, <<Bulk(<<"2">>)>>), fault)
                     => protocol_version' = "Resp2"
              /\ HandleCommand(Frame(<<"H", "E", "L", "L", "O">>, <<Bulk(<<"3">>)>>), fault)
                     => protocol_version' = "Resp3"
              /\ HandleCommand(Frame(<<"H", "E", "L", "L", "O">>, <<>>), fault)
                     => protocol_version' = protocol_version
              /\ \A f \in {Frame(<<"H", "E", "L", "L", "O">>, <<>>), Frame(<<"H", "E", "L", "L", "O">>, <<Bulk(<<"2">>)>>),
                           Frame(<<"H", "E", "L", "L", "O">>, <<Bulk(<<"3">>)>>)} :
                     HandleCommand(f, fault)
                         => HelloShape(response', protocol_version')]_vars

\* After a switch to RESP3, a HELLO without argument is answered with the
\* 5-entry map and the connection is still at RESP3.
C18_Witness ==
    /\ value = Frame(<<"H", "E", "L", "L", "O">>, <<>>)
    /\ protocol_version = "Resp3"
    /\ response.t = "Map" /\ Len(response.v) = 5

\* version arguments that are integers other than 2 and 3
OtherNumbers == {<<"0">>, <<"4">>, <<"2", "5", "5">>, <<"2", "5", "6">>, <<"1", "0", "0", "0">>, <<"-", "1">>}

\* version arguments that are not numbers
NotNumbers == {<<"t", "h", "r", "e", "e">>, <<>>}

\* C19: HELLO with an integer n other than 2 and 3 (0, 256, 1000 and the
\* negative ones included) is answered 'ERR unsupported protocol version:
\* <n>'; HELLO with an argument that is not a number is answered 'ERR
\* protocol version must be a number'.
C19_HelloErrorMessages ==
    [][\A fault \in BOOLEAN :
           /\ \A n \in OtherNumbers :
                  HandleCommand(Frame(<<"H", "E", "L", "L", "O">>, <<Bulk(n)>>), fault) =>
                      response' = Error(<<"E", "R", "R", " ", "u", "n", "s", "u", "p", "p", "o", "r", "t", "e", "d", " ", "p", "r", "o", "t", "o", "c", "o", "l", " ", "v", "e", "r", "s", "i", "o", "n", ":", " ">> \o n)
           /\ \A s \in NotNumbers :
                  HandleCommand(Frame(<<"H", "E", "L", "L", "O">>, <<Bulk(s)>>), fault) =>
                      response' = Error(<<"E", "R", "R", " ", "p", "r", "o", "t", "o", "c", "o", "l", " ", "v", "e", "r", "s", "i", "o", "n", " ", "m", "u", "s", "t", " ", "b", "e", " ", "a", " ", "n", "u", "m", "b", "e", "r">>)]_vars

(***************************************************************************)
(* Encode, then decode: RespValue::to_bytes fed whole to a fresh           *)
(* RespParser, then parse().                                               *)
(***************************************************************************)
Payloads == {<<>>, <<"a">>, OK, <<"a", CR, LF, "b">>}

LeafFrames ==
    {SimpleString(s) : s \in Payloads} \cup {Error(s) : s \in Payloads}
        \cup {Bulk(s) : s \in Payloads}
        \cup {Integer(i) : i \in {-1, 0, 42}}
        \cup {Boolean(b) : b \in BOOLEAN}

ContainerFrames ==
    {Array(Some(<<>>)), Set(<<>>), Map(<<>>)}
        \cup {Array(Some(<<x>>)) : x \in LeafFrames}
        \cup {Set(<<x, Integer(0)>>) : x \in LeafFrames}
        \cup {Map(<< <<SimpleString(OK), x>> >>) : x \in LeafFrames}

NestedFrames ==
    LET inner == {Array(Some(<<Integer(7)>>)), Set(<<SimpleString(OK)>>),
                  Map(<< <<SimpleString(<<"k">>), Array(Some(<<Integer(7)>>))>> >>)}
    IN  {Array(Some(<<c, Boolean(TRUE)>>)) : c \in inner}
            \cup {Map(<< <<Bulk(<<"k">>), c>> >>) : c \in inner}
            \cup {Set(<<Array(Some(<<c>>))>>) : c \in inner}

\* the null bulk string, the null array and the null singleton
NullFrames == {BulkString(None), Array(None), Null}

RoundTripFrames ==
    LeafFrames \cup ContainerFrames \cup NestedFrames \cup NullFrames

\* RespParser::new(), and the bytes of one encoded frame to feed
RoundTripInit ==
    /\ \E f \in RoundTripFrames :
           /\ sent = <<f>>
           /\ input = to_bytes(f)
    /\ buffer = <<>> /\ frames = <<>> /\ presult = "fresh" /\ entry = <<>>
    /\ ConnParked /\ BackendInit /\ TasksInit

\* parser.add_data(&f.to_bytes())
FeedWhole == Feed(Len(input))

RoundTripNext ==
    \/ FeedWhole
    \/ ParseCall

RoundTripSpec == RoundTripInit /\ [][RoundTripNext]_vars

\* C20: for every non-null frame f built from simple strings, errors,
\* integers, bulk strings, booleans, arrays, sets and maps, the first
\* parse() of a fresh parser fed to_bytes(f) yields f and leaves the
\* buffer empty.
C20_RoundTrip ==
    (Len(sent) = 1 /\ presult \notin {"fresh", "fed"} /\ entry = to_bytes(sent[1]))
        => (presult = "ok" /\ frames = sent /\ buffer = <<>>)

\* the null and the empty bulk string, the null and the empty array
NullAndEmpty == {BulkString(None), Bulk(<<>>), Array(None), Array(Some(<<>>))}

\* C21: the empty bulk string encodes as '$0\r\n\r\n' and the null bulk
\* string as '$-1\r\n', the empty array as '*0\r\n' and the null array as
\* '*-1\r\n'; each of the four decodes to itself, so that no encoding of an
\* empty value decodes to the null one or the other way round.
C21_NullDistinctFromEmpty ==
    /\ to_bytes(Bulk(<<>>)) = <<"$", "0", CR, LF, CR, LF>>
    /\ to_bytes(BulkString(None)) = <<"$", "-", "1", CR, LF>>
    /\ to_bytes(Array(Some(<<>>))) = <<"*", "0", CR, LF>>
    /\ to_bytes(Array(None)) = <<"*", "-", "1", CR, LF>>
    /\ Bulk(<<>>) # BulkString(None) /\ Array(Some(<<>>)) # Array(None)
    /\ \A f \in NullAndEmpty :
           (sent = <<f>> /\ presult \notin {"fresh", "fed"} /\ entry = to_bytes(f))
               => (presult = "ok" /\ frames = <<f>> /\ buffer = <<>>)

\* The null bulk string has been decoded from its own encoding.
C21_Witness ==
    /\ sent = <<BulkString(None)>>
    /\ entry = <<"$", "-", "1", CR, LF>>
    /\ presult = "ok" /\ frames = <<BulkString(None)>> /\ buffer = <<>>

(***************************************************************************)
(* Malformed input, reset(), then an encoded frame: the sequence of        *)
(* test_parser_reset and test_error_recovery.                              *)
(***************************************************************************)
\* complete length lines that hold no valid length
BadLengthInputs ==
    {<<"$", "-", "2">> \o CRLF, <<"$", "-", "5">> \o CRLF, <<"*", "-", "2">> \o CRLF \o <<":", "1">> \o CRLF,
     <<"*", "-", "9">> \o CRLF,
     <<"~", "-", "1">> \o CRLF, <<"~", "-", "3">> \o CRLF, <<"%", "-", "1">> \o CRLF, <<"%", "-", "2">> \o CRLF,
     <<"$", "x">> \o CRLF \o <<"a", "b", "c">>, <<"*", "x">> \o CRLF, <<"~", "1", ".", "5">> \o CRLF, <<"%">> \o CRLF,
     <<"$", "2", "a">> \o CRLF \o <<"h", "i">> \o CRLF,
     <<"*", "1">> \o CRLF \o <<"$", "-", "7">> \o CRLF,
     <<"%", "1">> \o CRLF \o <<"+", "k">> \o CRLF \o <<"~", "-", "1">> \o CRLF}

MalformedInputs ==
    {<<"$", "-", "5">> \o CRLF,
     <<"$", "-", "5">> \o CRLF \o <<"+", "O", "K">> \o CRLF,
     <<"$", "x">> \o CRLF \o <<"a", "b", "c">>,
     <<":", "a", "b", "c">> \o CRLF \o <<"$", "3">> \o CRLF,
     <<"#", "x">> \o CRLF,
     <<"*", "-", "2">> \o CRLF \o <<":", "1">> \o CRLF,
     <<"G", "E", "T", " ", "\"", "a", CR, LF>>}
        \cup BadLengthInputs

\* parser.add_data(m) on the fresh parser
FeedMalformed(m) ==
    /\ presult = "fresh"
    /\ buffer' = add_data(buffer, m)
    /\ presult' = "fed"
    /\ UNCHANGED <<input, frames, entry, sent, connVars, storeVars, taskVars>>

\* parser.add_data(&f.to_bytes()) once the parser has been reset
FeedAfterReset == presult = "reset" /\ FeedWhole

\* what may follow the three payload bytes of '$3\r\nabc'
BulkTails ==
    {CRLF, CRLF \o <<"+", "O", "K">> \o CRLF, <<"X", "Y">>, <<"X", "Y">> \o CRLF, <<"+", "O", "K">> \o CRLF,
     <<CR, "X">>, <<LF, CR>> \o CRLF, <<"d", "e">> \o CRLF}

\* a bulk string header for three bytes, the bytes, and what follows
BulkInputs == {<<"$", "3">> \o CRLF \o <<"a", "b", "c">> \o tail : tail \in BulkTails}

RecoveryNext ==
    \/ \E m \in MalformedInputs \cup BulkInputs : FeedMalformed(m)
    \/ ParseCall
    \/ ResetCall
    \/ FeedAfterReset

RecoverySpec == RoundTripInit /\ [][RecoveryNext]_vars

\* the frames a fresh parser decodes from their encoding
WellFormedFrames == {f \in RoundTripFrames : parse(to_bytes(f)) = POk(f, <<>>)}

\* C22: after add_data(m) for a malformed m, the parse() that fails and
\* reset(), nothing of m is left in the buffer; and after
\* add_data(to_bytes(f)) for a well-formed frame f, the next parse()
\* returns f and empties the buffer.
C22_ResetLeavesNoResidue ==
    /\ presult = "reset" => buffer = <<>>
    /\ (input = <<>> /\ presult # "fed" /\ sent[1] \in WellFormedFrames)
           => (frames = sent /\ buffer = <<>>)

\* A parse failed on '$-5\r\n+OK\r\n', the parser was reset, and the map
\* frame fed next came back whole.
C22_Witness ==
    /\ sent = <<Map(<< <<SimpleString(OK), Integer(42)>> >>)>>
    /\ input = <<>>
    /\ presult = "ok" /\ frames = sent /\ buffer = <<>>

\* C23: '$-1\r\n' decodes to the null bulk string and '*-1\r\n' to the null
\* array; a complete length line holding any other negative number after
\* '$' or '*', any negative number after '~' or '%', or something that is
\* not a number, makes parse() fail: it returns neither incomplete nor a
\* frame.
C23_LengthHandling ==
    /\ entry \in BadLengthInputs => (presult \notin {"ok", "none"} /\ frames = <<>>)
    /\ (sent[1] \in {BulkString(None), Array(None)} /\ input = <<>> /\ presult # "fed")
           => frames = sent

\* parse() has failed on the map header '%-1\r\n'.
C23_Witness ==
    /\ entry = <<"%", "-", "1">> \o CRLF
    /\ presult = "err" /\ frames = <<>>

(***************************************************************************)
(* Inline lines and RESP frames on one connection, as in                   *)
(* test_mixed_inline_and_resp.                                             *)
(***************************************************************************)
\* inline lines (without their CRLF) and the tokens they hold
InlineLines ==
    {<<<<"P", "I", "N", "G">>, <<<<"P", "I", "N", "G">>>>>>,
     <<<<"G", "E", "T", " ", "k">>, <<<<"G", "E", "T">>, <<"k">>>>>>,
     <<<<"s", "e", "t", " ", " ", "k", " ", " ", " ", "v">>, <<<<"s", "e", "t">>, <<"k">>, <<"v">>>>>>,
     <<<<"x", "+", "y", " ", "$", "1">>, <<<<"x", "+", "y">>, <<"$", "1">>>>>>}

\* a fresh parser and the bytes of an inline line and a RESP frame, in
\* either order
MixedInit ==
    /\ \E l \in InlineLines, f \in TestFrames :
           \/ /\ sent = <<Cmd(l[2]), f>>
              /\ input = l[1] \o CRLF \o to_bytes(f)
           \/ /\ sent = <<f, Cmd(l[2])>>
              /\ input = to_bytes(f) \o l[1] \o CRLF
    /\ buffer = <<>> /\ frames = <<>> /\ presult = "fresh" /\ entry = <<>>
    /\ ConnParked /\ BackendInit /\ TasksInit

MixedSpec == MixedInit /\ [][RoundTripNext]_vars

\* bytes that do not start a RESP frame
OtherBytes == {"P", "g", "0", "9", " ", "\"", "!", "@", "=", ".", CR, LF}

\* C24: the first unconsumed byte selects the branch, one of + - : $ * _ #
\* , ~ % the RESP branch and any other byte the inline branch; and an
\* inline line and a RESP frame that follow one another on a connection
\* are both yielded, in order, each as the frame its own format defines.
C24_BranchPerFrame ==
    /\ \A b \in RespTypeBytes : detect_format(<<b, "x">>) = Some("Resp")
    /\ \A b \in OtherBytes : detect_format(<<b, "x">>) = Some("Inline")
    /\ RespTypeBytes = {"+", "-", ":", "$", "*", "_", "#", ",", "~", "%"}
    /\ presult # "err"
    /\ Len(frames) <= 2 /\ frames = SubSeq(sent, 1, Len(frames))
    /\ (input = <<>> /\ presult = "none") => (frames = sent /\ buffer = <<>>)

\* An inline PING and the RESP3 boolean that followed it have both been
\* yielded.
C24_Witness ==
    /\ sent = <<Cmd(<<<<"P", "I", "N", "G">>>>), Boolean(TRUE)>>
    /\ input = <<>> /\ presult = "none"
    /\ frames = sent /\ buffer = <<>>

(***************************************************************************)
(* Inline (telnet-style) input on a fresh parser.                          *)
(***************************************************************************)
\* lines of spaces and tabs only
BlankLines == {<<>>, <<" ">>, <<"\t">>, <<" ", "\t", " ", " ">>, <<" ", " ", " ">>}

\* inline lines (without their CRLF), the tokens they hold, and whether
\* every double quote in them is closed
InlineCases ==
    {[line |-> <<"P", "I", "N", "G">>, tokens |-> <<<<"P", "I", "N", "G">>>>, ok |-> TRUE],
     [line |-> <<" ", " ", "G", "E", "T", " ", " ", " ", "k", " ", " ">>, tokens |-> <<<<"G", "E", "T">>, <<"k">>>>, ok |-> TRUE],
     [line |-> <<"S", "E", "T", "\t", "k", "\t", " ", "v">>,
      tokens |-> <<<<"S", "E", "T">>, <<"k">>, <<"v">>>>, ok |-> TRUE],
     [line |-> <<"G", "E", "T", " ", "\"", "a", " ", "b", "\"">>,
      tokens |-> <<<<"G", "E", "T">>, <<"a", " ", "b">>>>, ok |-> TRUE],
     [line |-> <<"S", "E", "T", " ", "k", " ", "\"", "x", "\\", "n", "y", "\"">>,
      tokens |-> <<<<"S", "E", "T">>, <<"k">>, <<"x", "\n", "y">>>>, ok |-> TRUE],
     [line |-> <<"E", " ", "\"", "\\", "r", "\\", "t", " ", "\\", "\"", "\\", "\\", "\"", " ", "z">>,
      tokens |-> <<<<"E">>, <<"\r", "\t", " ", "\"", "\\">>, <<"z">>>>, ok |-> TRUE],
     [line |-> <<"G", "E", "T", " ", "\"", "a">>, tokens |-> <<>>, ok |-> FALSE],
     [line |-> <<"\"", "a", " ", "b">>, tokens |-> <<>>, ok |-> FALSE],
     [line |-> <<"G", "E", "T", " ", "\"", "a", "\\", "\"">>, tokens |-> <<>>,
      ok |-> FALSE]}

\* bytes that follow the line on the connection
Trailers == {<<>>, <<"+", "O", "K">>, <<"P", "I", "N", "G">> \o CRLF}

\* a fresh parser and the bytes of one inline line with what follows it
InlineInit ==
    /\ \E t \in Trailers :
           \/ \E c \in InlineCases :
                  /\ sent = IF c.ok THEN <<Cmd(c.tokens)>> ELSE <<>>
                  /\ input = c.line \o CRLF \o t
           \/ \E b \in BlankLines :
                  /\ sent = <<>>
                  /\ input = b \o CRLF \o t
    /\ buffer = <<>> /\ frames = <<>> /\ presult = "fresh" /\ entry = <<>>
    /\ ConnParked /\ BackendInit /\ TasksInit

InlineSpec == InlineInit /\ [][RoundTripNext]_vars

\* C25: parse() on a buffer whose first line holds nothing, or spaces and
\* tabs only, before its CRLF returns incomplete (Ok(None)): no frame is
\* yielded, an empty command array in particular, and no error is raised.
C25_BlankLineIncomplete ==
    \A b \in BlankLines, t \in Trailers :
        (entry = b \o CRLF \o t) =>
            (presult = "none" /\ frames = <<>> /\ buffer = entry)

\* parse() has returned incomplete on a line of a tab and spaces that is
\* followed by a complete PING.
C25_Witness ==
    /\ entry = <<" ", "\t", " ", " ">> \o CRLF \o <<"P", "I", "N", "G">> \o CRLF
    /\ presult = "none" /\ frames = <<>>


\* C26: a CRLF-terminated inline line is split on runs of spaces and tabs
\* into tokens, a double-quoted section keeping its whitespace and the
\* escapes \n \r \t \" \\ decoded; the tokens come back in order as an
\* Array of BulkStrings and exactly the line and its CRLF are consumed.  A
\* line whose quote is never closed is an error.
C26_InlineTokens ==
    \A c \in InlineCases, t \in Trailers :
        (entry = c.line \o CRLF \o t) =>
            IF c.ok
            THEN /\ presult = "ok"
                 /\ frames # <<>>
                 /\ frames[Len(frames)] = Cmd(c.tokens)
                 /\ buffer = t
            ELSE presult = "err" /\ frames = <<>>

\* the line with every escape has been decoded and the bytes after its CRLF
\* are what the buffer still holds.
C26_Witness ==
    /\ presult = "ok"
    /\ buffer = <<"+", "O", "K">>
    /\ frames = <<Cmd(<<<<"E">>, <<"\r", "\t", " ", "\"", "\\">>, <<"z">>>>)>>


(***************************************************************************)
(* Command names in handle_command: spellings and near misses.             *)
(***************************************************************************)
\* the ten names handle_command matches on
CommandNames ==
    {<<"p", "i", "n", "g">>, <<"s", "e", "t">>, <<"g", "e", "t">>, <<"d", "e", "l">>, <<"e", "x", "i", "s", "t", "s">>, <<"d", "b", "s", "i", "z", "e">>, <<"f", "l", "u", "s", "h", "d", "b">>,
     <<"c", "o", "m", "m", "a", "n", "d">>, <<"h", "e", "l", "l", "o">>, <<"c", "o", "n", "f", "i", "g">>}

\* the upper-case letter of a lower-case one
Upper(b) == UpperCase[CHOOSE j \in 1..26 : LowerCase[j] = b]

\* every way of writing a name in upper- and lower-case letters
Spellings(name) ==
    {s \in [1..Len(name) -> {name[i] : i \in 1..Len(name)}
                              \cup {Upper(name[i]) : i \in 1..Len(name)}] :
        LowerStr(s) = name}

\* for the long names: lower, upper, capitalised, last letter upper, and
\* alternating
SomeSpellings(name) ==
    {name,
     [i \in 1..Len(name) |-> Upper(name[i])],
     [i \in 1..Len(name) |-> IF i = 1 THEN Upper(name[i]) ELSE name[i]],
     [i \in 1..Len(name) |-> IF i = Len(name) THEN Upper(name[i]) ELSE name[i]],
     [i \in 1..Len(name) |-> IF i % 2 = 0 THEN Upper(name[i]) ELSE name[i]]}

\* the arguments each name is sent with
ArgsFor(name) ==
    CASE name \in {<<"s", "e", "t">>} -> <<Bulk(<<"k">>), Bulk(<<"v">>)>>
      [] name \in {<<"g", "e", "t">>, <<"d", "e", "l">>, <<"e", "x", "i", "s", "t", "s">>} -> <<Bulk(<<"k">>)>>
      [] name = <<"h", "e", "l", "l", "o">> -> <<Bulk(<<"3">>)>>
      [] name = <<"c", "o", "n", "f", "i", "g">> -> <<Bulk(<<"g", "e", "t">>), Bulk(<<"p", "o", "r", "t">>)>>
      [] OTHER -> <<>>

SpelledCommands ==
    UNION {{Frame(s, ArgsFor(name)) :
               s \in IF Len(name) <= 4 THEN Spellings(name) ELSE SomeSpellings(name)} :
           name \in CommandNames}

\* names that are no spelling of a command
UnknownNames ==
    {<<"F", "O", "O">>, <<"f", "o", "o">>, <<"P", "I", "N">>, <<"P", "i", "n">>, <<"p", "i", "n">>, <<"P", "I", "N", "G", "S">>, <<"S", "E", "T", "X">>, <<"G", "e">>,
     <<"G", "3", "T">>, <<"H", "E", "L", "L", "0">>, <<"F", "l", "u", "s", "h", "d">>, <<"C", "O", "N", "F", "I", "G", "S">>, <<"S", "[", "T">>, <<"D", "^", "L">>, <<"S", "e", "t", " ">>,
     <<"D", "B", "S", "I", "Z", "E", "1">>, <<"E", "X", "I", "S", "T">>, <<"C", "o", "m", "m", "a", "n", "d", ":">>, <<>>}

UnknownCommands ==
    {Frame(n, <<>>) : n \in UnknownNames}
        \cup {Frame(<<"S", "E", "T", "X">>, <<Bulk(<<"k">>), Bulk(<<"v">>)>>),
              Frame(<<"P", "i", "n">>, <<Bulk(<<"k">>)>>)}

\* the table of CONFIG GET, key then value, in the order '*' lists it
ConfigTable ==
    <<<<<<"p", "o", "r", "t">>, NatToBytes(ConfigPort)>>, <<<<"b", "i", "n", "d">>, ConfigHost>>,
      <<<<"s", "t", "o", "r", "a", "g", "e", "-", "b", "a", "c", "k", "e", "n", "d">>, ConfigBackend>>, <<<<"m", "a", "x", "m", "e", "m", "o", "r", "y">>, <<"0">>>>,
      <<<<"m", "a", "x", "m", "e", "m", "o", "r", "y", "-", "p", "o", "l", "i", "c", "y">>, <<"n", "o", "e", "v", "i", "c", "t", "i", "o", "n">>>>, <<<<"s", "a", "v", "e">>, <<>>>>,
      <<<<"a", "p", "p", "e", "n", "d", "o", "n", "l", "y">>, <<"n", "o">>>>, <<<<"d", "a", "t", "a", "b", "a", "s", "e", "s">>, <<"1">>>>>>

\* the key a parameter is reported under
CanonicalKey(param) ==
    CASE LowerStr(param) = <<"h", "o", "s", "t">> -> <<"b", "i", "n", "d">>
      [] LowerStr(param) = <<"s", "t", "o", "r", "a", "g", "e">> -> <<"s", "t", "o", "r", "a", "g", "e", "-", "b", "a", "c", "k", "e", "n", "d">>
      [] OTHER -> LowerStr(param)

\* the pairs one parameter stands for
PairsOf(param) ==
    IF param = <<"*">> THEN ConfigTable
    ELSE SelectSeq(ConfigTable, LAMBDA e : e[1] = CanonicalKey(param))

\* key, value, key, value, ... for a list of parameters
RECURSIVE Flattened(_)
Flattened(params) ==
    IF params = <<>> THEN <<>>
    ELSE LET pairs == PairsOf(Head(params))
         IN  [i \in 1..(2 * Len(pairs)) |->
                 Bulk(pairs[(i + 1) \div 2][IF i % 2 = 1 THEN 1 ELSE 2])]
                 \o Flattened(Tail(params))

ConfigParams ==
    {<<<<"p", "o", "r", "t">>>>, <<<<"P", "O", "R", "T">>>>, <<<<"b", "i", "n", "d">>>>, <<<<"H", "o", "s", "t">>>>, <<<<"s", "t", "o", "r", "a", "g", "e">>>>,
     <<<<"S", "t", "o", "r", "a", "g", "e", "-", "B", "a", "c", "k", "e", "n", "d">>>>, <<<<"m", "a", "x", "m", "e", "m", "o", "r", "y">>>>, <<<<"M", "a", "x", "M", "e", "m", "o", "r", "y", "-", "P", "o", "l", "i", "c", "y">>>>,
     <<<<"s", "a", "v", "e">>>>, <<<<"a", "p", "p", "e", "n", "d", "o", "n", "l", "y">>>>, <<<<"d", "a", "t", "a", "b", "a", "s", "e", "s">>>>, <<<<"*">>>>,
     <<<<"n", "o", "s", "u", "c", "h">>>>, <<<<"p", "o", "r", "t", "s">>>>, <<<<"p", "o", "r", "*">>>>,
     <<<<"p", "o", "r", "t">>, <<"n", "o", "s", "u", "c", "h">>, <<"b", "i", "n", "d">>>>, <<<<"d", "a", "t", "a", "b", "a", "s", "e", "s">>, <<"p", "o", "r", "t">>>>,
     <<<<"h", "o", "s", "t">>, <<"b", "i", "n", "d">>>>, <<<<"*">>, <<"S", "A", "V", "E">>>>, <<<<"n", "o", "s", "u", "c", "h">>, <<"t", "i", "m", "e", "o", "u", "t">>>>}

ConfigCommands ==
    {Frame(<<"C", "O", "N", "F", "I", "G">>, <<Bulk(<<"G", "E", "T">>)>> \o [i \in 1..Len(p) |-> Bulk(p[i])]) :
        p \in ConfigParams}
        \cup {Frame(<<"c", "o", "n", "f", "i", "g">>, <<Bulk(<<"g", "e", "t">>), Bulk(<<"p", "o", "r", "t">>), Bulk(<<"h", "o", "s", "t">>)>>)}

DispatchFrames == SpelledCommands \cup UnknownCommands \cup ConfigCommands

\* handle_command on one connection's Handler, frame after frame
DispatchNext == \E f \in DispatchFrames : HandleCommand(f, FALSE)

DispatchSpec == CommandInit /\ [][DispatchNext]_vars

\* the error frame for a name no arm of handle_command matches
UnknownCommand(name) == Error(<<"U", "n", "k", "n", "o", "w", "n", " ", "c", "o", "m", "m", "a", "n", "d", ":", " ">> \o name)

\* C27: every spelling in upper-, lower- or mixed-case letters of PING,
\* SET, GET, DEL, EXISTS, DBSIZE, FLUSHDB, COMMAND, HELLO and CONFIG is
\* routed to its handler and gives the response and the change of state the
\* lower-case spelling gives; a name that is no such spelling is routed to
\* no handler.
C27_CaseInsensitiveDispatch ==
    [][\A f \in DispatchFrames :
           HandleCommand(f, FALSE) =>
               LET name == f.v[1][1].v[1]
                   h == [data |-> data, count |-> approximate_count,
                         pv |-> protocol_version, fault |-> FALSE]
                   lower == handle_command(Frame(LowerStr(name), Tail(f.v[1])), h, now)
               IN  IF LowerStr(name) \in CommandNames
                   THEN /\ response' # UnknownCommand(name)
                        /\ response' = lower.response
                        /\ data' = lower.data
                        /\ approximate_count' = lower.count
                        /\ protocol_version' = lower.pv
                   ELSE /\ response' = UnknownCommand(name)
                        /\ data' = data
                        /\ approximate_count' = approximate_count
                        /\ protocol_version' = protocol_version]_vars

\* a mixed-case SET has stored its record and a mixed-case HELLO 3 has
\* switched the connection to RESP3.
C27_Witness ==
    /\ value = Frame(<<"h", "E", "l", "L", "o">>, <<Bulk(<<"3">>)>>)
    /\ protocol_version = "Resp3"
    /\ <<"k">> \in DOMAIN data


\* an array frame whose first element is a bulk string naming no command
IsUnknownCommand(f) ==
    /\ f.t = "Array" /\ f.v # None /\ Len(f.v[1]) > 0
    /\ IsBulk(f.v[1][1])
    /\ LowerStr(f.v[1][1].v[1]) \notin CommandNames

\* C28: a command whose name is unknown is answered with the error
\* 'Unknown command: <name>' and changes nothing else: the connection task
\* goes on to write the response (it does not close), the protocol version,
\* the backend and the bytes still buffered are as before, and the command
\* that follows is served.
C28_UnknownCommand ==
    [][(Dispatch /\ IsUnknownCommand(value)) =>
           /\ response' = UnknownCommand(value.v[1][1].v[1])
           /\ hpc' = "write"
           /\ data' = data
           /\ approximate_count' = approximate_count
           /\ protocol_version' = protocol_version
           /\ hbuf' = hbuf]_vars

\* FOO was answered with the error and the SET sent after it was served.
C28_Witness ==
    /\ hpc \notin {"closed", "failed"}
    /\ <<"k">> \in DOMAIN data
    /\ \E i \in 1..(Len(log) - 1) :
           /\ log[i].value = Cmd(<<<<"F", "O", "O">>>>)
           /\ log[i].response = UnknownCommand(<<"F", "O", "O">>)
           /\ log[i + 1].kind = "command"
           /\ log[i + 1].value = SetFrame
           /\ log[i + 1].response = SimpleString(<<"O", "K">>)


\* the frames of CommandFrames with the given name and an argument
CommandsNamed(name) ==
    {f \in CommandFrames : f.v[1][1] = Bulk(name) /\ Len(f.v[1]) > 1}

\* the positions of a command's arguments that hold a key
KeyPositions(f) == {i \in 2..Len(f.v[1]) : IsBulk(f.v[1][i])}

\* C29: DEL answers with the number of distinct keys among its arguments
\* that held a record when the command ran (a key listed twice counts
\* once; one stored key with two absent ones gives 1), and after it none
\* of the listed keys holds a record.
C29_DelCountsRemoved ==
    [][\A f \in CommandsNamed(<<"D", "E", "L">>) :
           HandleCommand(f, FALSE) =>
               LET keys == {f.v[1][i].v[1] : i \in KeyPositions(f)}
               IN  /\ response' = Integer(Cardinality(keys \cap DOMAIN data))
                   /\ keys \cap DOMAIN data' = {}
                   /\ data' = [x \in (DOMAIN data) \ keys |-> data[x]]]_vars

\* DEL k a b has answered 1 and left the store empty.
C29_Witness ==
    /\ value = Frame(<<"D", "E", "L">>, <<Bulk(<<"k">>), Bulk(<<"a">>), Bulk(<<"b">>)>>)
    /\ response = Integer(1)
    /\ data = EmptyMap

\* C30: EXISTS answers with the number of positions in its argument list
\* whose key holds a record that has not expired, so a stored key given
\* twice counts 2; the records that have not expired are stored after the
\* command as they were before it.
C30_ExistsCountsPositions ==
    [][\A f \in CommandsNamed(<<"E", "X", "I", "S", "T", "S">>) :
           HandleCommand(f, FALSE) =>
               LET live == {x \in DOMAIN data : ~is_expired(data[x], now)}
               IN  /\ response' = Integer(Cardinality(
                           {i \in KeyPositions(f) : f.v[1][i].v[1] \in live}))
                   /\ live \subseteq DOMAIN data'
                   /\ DOMAIN data' \subseteq DOMAIN data
                   /\ \A x \in live : data'[x] = data[x]]_vars

\* EXISTS a k a has answered 3.
C30_Witness ==
    /\ value = Frame(<<"E", "X", "I", "S", "T", "S">>, <<Bulk(<<"a">>), Bulk(<<"k">>), Bulk(<<"a">>)>>)
    /\ response = Integer(3)


\* C31: CONFIG GET answers with one array of bulk strings, key then value:
\* each parameter is looked up without regard to case in the table of
\* eight entries (host under bind, storage under storage-backend), a
\* parameter the table lacks adds nothing, the pairs come in the order of
\* the request, and * stands for the eight entries port, bind,
\* storage-backend, maxmemory, maxmemory-policy, save, appendonly,
\* databases.  Nothing else changes.
C31_ConfigGet ==
    [][\A f \in ConfigCommands :
           HandleCommand(f, FALSE) =>
               LET params == [i \in 1..(Len(f.v[1]) - 2) |-> f.v[1][i + 2].v[1]]
               IN  /\ response' = Array(Some(Flattened(params)))
                   /\ Len(response'.v[1]) % 2 = 0
                   /\ data' = data
                   /\ protocol_version' = protocol_version]_vars

\* CONFIG GET * SAVE has answered with the eight entries and save again.
C31_Witness ==
    /\ value = Frame(<<"C", "O", "N", "F", "I", "G">>, <<Bulk(<<"G", "E", "T">>), Bulk(<<"*">>), Bulk(<<"S", "A", "V", "E">>)>>)
    /\ response.t = "Array"
    /\ Len(response.v[1]) = 18
    /\ response.v[1][1] = Bulk(<<"p", "o", "r", "t">>)
    /\ response.v[1][15] = Bulk(<<"d", "a", "t", "a", "b", "a", "s", "e", "s">>)
    /\ response.v[1][17] = Bulk(<<"s", "a", "v", "e">>)


\* C32: delete(k) leaves the map without k and reports whether it removed
\* a record: true (after one decrement of the key counter) when k was
\* stored, false with the counter untouched when it was not.  A delete(k)
\* that follows a delete(k) with no write to k in between finds nothing:
\* it returns false and changes neither the map nor the counter.
C32_DeleteIdempotent ==
    [][/\ \A p \in Conns, k \in StoreKeys :
              DeleteCall(p, k) =>
                  /\ k \notin DOMAIN data'
                  /\ approximate_count' = approximate_count
                  /\ IF k \in DOMAIN data
                     THEN pc'[p] = "sub" /\ ret'[p] = RetPending
                     ELSE pc'[p] = "idle" /\ ret'[p] = RetBool(FALSE) /\ data' = data
                  /\ last_write[k].kind = "delete" =>
                         (ret'[p] = RetBool(FALSE) /\ data' = data)
       /\ \A p \in Conns :
              DeleteCount(p) =>
                  /\ ret'[p] = RetBool(TRUE)
                  /\ approximate_count' = FetchSub(approximate_count)
                  /\ data' = data]_vars

\* one connection has stored k and deleted it twice: the second delete
\* returned false and the counter is back at 0.
C32_Witness ==
    \E p \in Conns :
        /\ hist[p] = <<"set", "delete", "delete">>
        /\ pc[p] = "idle"
        /\ ret[p] = RetBool(FALSE)
        /\ data = EmptyMap
        /\ approximate_count = 0


\* the observations of a step made on one instrument
OnInstrument(obs, instrument) ==
    SelectSeq(obs, LAMBDA o : o.instrument = instrument)

\* C33: the dispatch of a command frame makes exactly one addition to the
\* per-command counter and one record on the per-command duration, both
\* labelled with the normalized command name (so GET, get and Get share a
\* label), and exactly one request observation.
C33_CommandMetrics ==
    (/\ hpc = "write"
     /\ value.t = "Array" /\ value.v # None /\ Len(value.v[1]) > 0
     /\ IsBulk(value.v[1][1]))
        => LET tag == Some(normalize_command(value.v[1][1].v[1]))
           IN  /\ OnInstrument(observed, "commands_total")
                      = <<Observation("commands_total", None, tag)>>
               /\ OnInstrument(observed, "command_duration")
                      = <<Observation("command_duration", None, tag)>>
               /\ Len(OnInstrument(observed, "requests_total")) = 1
               /\ Len(OnInstrument(observed, "request_duration")) = 1


\* the record stored at k was put there by a set / set_with_expiry call
\* that has returned, and has not expired
LiveAcknowledged(k) ==
    /\ k \in DOMAIN data
    /\ ~is_expired(data[k], now)
    /\ last_write[k].kind \in SetKinds
    /\ pc[last_write[k].by] = "idle"

\* C34: the remove step of a lazy eviction (a get or exists that found an
\* expired record) does not take out a record that a set, completed since,
\* has stored in its place: a live, acknowledged record stays.
C34_EvictionSparesLiveValue ==
    [][\A p \in Conns :
           (EvictRemove(p) /\ LiveAcknowledged(call[p].key)) => data' = data]_vars

\* C35: the removal phase of the sweep removes only records that are
\* expired when it reaches them: a key collected by the scan and
\* overwritten since keeps its fresh record, and the key counter is not
\* decremented for it.
C35_SweepSparesFreshRecord ==
    [][\A k \in StoreKeys :
           (SweepRemove(k) /\ k \in DOMAIN data /\ ~is_expired(data[k], now))
               => (data' = data /\ sweep_pc' # "sub")]_vars

\* C36: the key counter never goes below 0 (a fetch_sub at 0 would wrap
\* to usize::MAX, which DBSIZE reports as -1).
C36_CounterNeverUnderflows == approximate_count >= 0


(***************************************************************************)
(* The connection task under fair scheduling: a task that can take its     *)
(* next step (a read of bytes that have arrived, a parse, the dispatch, a  *)
(* write, a flush) eventually takes it.  The client's sends and I/O        *)
(* failures are not forced.                                                *)
(***************************************************************************)
\* an inline PING and, behind it, a PING as an array
InlineThenPing == <<"P", "I", "N", "G">> \o CRLF \o to_bytes(PingFrame)

\* a PING, a malformed frame and a complete GET in one write
FaultBetweenFrames == to_bytes(PingFrame) \o BadBulk \o to_bytes(GetFrame)

\* what the client sends here: blank lines, a PING behind a blank line, a
\* PING, two PINGs in one write, a malformed frame, a malformed frame
\* between two commands
BlankMessages ==
    {BlankThenPing, <<" ", "\t">> \o CRLF, to_bytes(PingFrame), InlineThenPing,
     BadBulk, FaultBetweenFrames}

\* the connection task moves on: it is at a step it can take (every step
\* but a read with nothing to read and the client still connected) and it
\* takes it, without an I/O failure
TaskMoves ==
    /\ hpc \notin {"closed", "failed"}
    /\ hpc = "read" => (wire # <<>> \/ sendsLeft = 0)
    /\ hpc' \in {"read", "parse", "dispatch", "write", "flush", "err_write",
                 "err_flush", "closed"} \ {hpc}

BlankNext ==
    \/ \E m \in BlankMessages : ClientSend(m)
    \/ \E n \in 1..Len(wire) : ReadChunk(n)
    \/ ReadEof
    \/ ParseFrame
    \/ ParseNone
    \/ ParseErr
    \/ Dispatch
    \/ Write
    \/ Flush
    \/ ErrWrite
    \/ ErrFlush
    \/ IoFault

ConnFairSpec == ConnInit /\ [][BlankNext]_vars /\ WF_hpc(TaskMoves)

\* the PING has been dispatched and its PONG written and flushed
PingAnswered ==
    /\ \E i \in 1..Len(log) :
           log[i].value = PingFrame /\ log[i].response = SimpleString(<<"P", "O", "N", "G">>)
    /\ hpc \in {"parse", "read", "closed"}

\* C37: an empty inline line does not wedge the connection: once the
\* client has sent '\r\n' followed by a complete PING on a connection with
\* nothing buffered, the PING is eventually parsed, dispatched and
\* answered (unless the socket fails).
C37_BlankLineDoesNotWedge ==
    (wire = BlankThenPing /\ hbuf = <<>>) ~> (PingAnswered \/ hpc = "failed")


\* C38: a '$3' bulk string is accepted as a frame only when its three
\* payload bytes are followed by CRLF, and then exactly the header, the
\* payload and the CRLF are consumed; when the two bytes after the payload
\* are not CRLF no frame is returned.
C38_BulkNeedsCrlf ==
    \A tail \in BulkTails :
        (entry = <<"$", "3">> \o CRLF \o <<"a", "b", "c">> \o tail) =>
            IF SubSeq(tail, 1, 2) = CRLF
            THEN /\ presult = "ok"
                 /\ frames = <<Bulk(<<"a", "b", "c">>)>>
                 /\ buffer = Advance(tail, 2)
            ELSE presult # "ok"


\* C39: the drain loop of the connection task always terminates.  Every
\* parse() that returns a frame leaves the buffer strictly shorter; the
\* buffer only grows at a socket read; so a task in its parse loop
\* is eventually back at the socket read (or has ended), and the read that
\* finds the client gone ends the task without an error.
C39_DrainLoopTerminates ==
    /\ [][ParseFrame => Len(hbuf') < Len(hbuf)]_vars
    /\ [][(hpc # "read" /\ hpc' # "read") => Len(hbuf') <= Len(hbuf)]_vars
    /\ [][(hpc = "read" /\ wire = <<>> /\ hpc' \notin {"read", "failed"})
             => (hpc' = "closed" /\ written' = written /\ log' = log)]_vars
    /\ (hpc \in {"parse", "dispatch", "write", "flush"})
           ~> (hpc \in {"read", "err_write", "closed", "failed"})
    /\ (hpc \in {"err_write", "err_flush"}) ~> (hpc \in {"read", "failed"})
    /\ (hpc = "read" /\ wire = <<>> /\ sendsLeft = 0)
           ~> (hpc \in {"closed", "failed"})

\* one read has delivered two frames, both were answered, the loop went
\* back to the read, and the task has ended on the client's close
C39_Witness ==
    /\ hpc = "closed"
    /\ hbuf = <<>>
    /\ \E i \in 1..(Len(log) - 1) :
           /\ log[i].kind = "command" /\ log[i + 1].kind = "command"
           /\ log[i].nreads = log[i + 1].nreads
           /\ log[i].entry = InlineThenPing


\* the frames and faults the task took up out of its j-th read
ReadLog(j) == SelectSeq(log, LAMBDA e : e.nreads = j)

\* how many frames and faults the task took up before its j-th read
LoggedBefore(j) == Len(SelectSeq(log, LAMBDA e : e.nreads < j))

IsProtocolError(resp) ==
    /\ resp.t = "Error"
    /\ Len(resp.v) >= 18
    /\ SubSeq(resp.v, 1, 18) = <<"E", "R", "R", " ", "P", "r", "o", "t", "o", "c", "o", "l", " ", "e", "r", "r", "o", "r">>

\* C40: on a protocol fault the handler discards the whole residual buffer.
\* When one read delivers a PING, a malformed frame and a complete GET to an
\* empty buffer, the client receives the PONG, then exactly one
\* 'ERR Protocol error' frame and nothing for the GET, the buffer is empty
\* when the task is back at the read, and the connection stays open.
C40_FaultDropsResidue ==
    \A j \in 1..Len(reads) :
        LET taken == ReadLog(j)
            first == LoggedBefore(j) + 1
        IN  (/\ reads[j] = FaultBetweenFrames
             /\ taken # <<>>
             /\ taken[1].entry = FaultBetweenFrames
             /\ (Len(reads) > j \/ hpc \in {"read", "closed"}))
            => /\ Len(taken) = 2
               /\ taken[1].kind = "command"
               /\ taken[1].value = PingFrame
               /\ taken[2].kind = "fault"
               /\ IsProtocolError(taken[2].response)
               /\ Len(written) >= first + 1
               /\ written[first] = to_bytes(SimpleString(<<"P", "O", "N", "G">>))
               /\ written[first + 1] = to_bytes(taken[2].response)
               /\ Len(written) > first + 1 => Len(reads) > j
               /\ Len(reads) = j => hbuf = <<>>
               /\ (Len(reads) = j /\ hpc = "closed") => sendsLeft = 0

\* the three frames arrived in one read, the PONG and one error went out,
\* and a PING sent afterwards was answered
C40_Witness ==
    \E j \in 1..Len(reads) :
        /\ reads[j] = FaultBetweenFrames
        /\ Len(ReadLog(j)) = 2
        /\ ReadLog(j)[1].entry = FaultBetweenFrames
        /\ ReadLog(j)[2].kind = "fault"
        /\ Len(reads) = j + 1
        /\ Len(ReadLog(j + 1)) = 1
        /\ ReadLog(j + 1)[1].entry = to_bytes(PingFrame)
        /\ ReadLog(j + 1)[1].response = SimpleString(<<"P", "O", "N", "G">>)
        /\ Len(written) = Len(log)
        /\ hpc = "read"

====
